---- MODULE Spec2Model ----
(***************************************************************************)
(* The in-memory library engine of src/src/library.js (class Library):     *)
(* the book registry, the category index, the per-actor borrow history,    *)
(* the performance metrics, snapshot export/import and history compaction. *)
(*                                                                         *)
(* JavaScript Maps are sequences of entries [key, value] in insertion      *)
(* order; Sets are sequences of members in insertion order.  Arguments are *)
(* JavaScript values tagged with their type, so that "absent", the empty   *)
(* string and the number 0 are distinct values that are all falsy.         *)
(*                                                                         *)
(* The clock counts whole seconds (1 unit = 1000 ms of Date.now()): the    *)
(* one-year retention window of 31536000000 ms does not fit the 32-bit     *)
(* integers of the model checker, 31536000 s does.                         *)
(***************************************************************************)
EXTENDS Integers, Sequences, FiniteSets, TLC

VARIABLES
    books,               \* this.books: Map isbn -> Book
    borrowHistory,       \* this.borrowHistory: Map userId -> array of events
    categories,          \* this.categories: Map label -> Set of isbn
    performanceMetrics,  \* this.performanceMetrics
    now,                 \* the wall clock read by Date.now() / new Date()
    ticks,               \* how often the clock has advanced
    last,                \* the last call: operation, arguments, error thrown, value returned
    lending,             \* history variable: per key, the last successful lending operation
    requests             \* the HTTP requests received by app.js, and their responses

vars == <<books, borrowHistory, categories, performanceMetrics, now, ticks,
          last, lending, requests>>

-----------------------------------------------------------------------------
(* Bounds of the model *)

MaxOps == 4       \* calls counted by performanceMetrics.operations
MaxTicks == 1     \* advances of the clock
MaxAddOps == 2    \* counted calls in the specification of addBook's validation
MaxStatOps == 4   \* counted calls in the specification of the statistics
MaxTopBooks == 11 \* books of the libraries whose rankings are truncated
MaxMetricsOps == 3   \* counted calls in the specification of the metrics
MaxMetricsTicks == 3 \* advances of the clock in the specification of the metrics
MaxSearchBooks == 2  \* books of the libraries that are searched
MaxSearchOps == 2    \* counted calls in the specification of searchBooks
MaxCategoryOps == 3  \* counted calls in the specification of getBooksByCategory
MaxLendingOps == 5   \* counted calls in the specification of lending
MaxRequests == 2     \* HTTP requests in the specification of the borrow route
MaxHttpAdds == 2     \* counted calls before a book is added in that specification
MaxFrameOps == 4     \* counted calls in the specification of the fields of a book
MaxDeleteOps == 5    \* counted calls in the specification of deletes and the statistics
MaxImportedOps == 2   \* counted calls in the specification of compaction after an import
MaxImportedTicks == 2 \* advances of the clock in that specification

-----------------------------------------------------------------------------
(* Program constants *)

MinYear == 1900                  \* publicationYear < 1900
OptimizationInterval == 3600     \* 3600000 ms
RetentionWindow == 31536000      \* 31536000000 ms
StartYear == 2026                \* new Date().getFullYear() when the clock reads 0
SecondsPerYear == 31536000       \* length of a (non-leap) calendar year
SecondsPerDay == 86400           \* length of a calendar day (UTC)
RecentDays == 30                 \* the most recent 30 days
TopBooksLimit == 10              \* top books: the top 10
RecommendationLimit == 5         \* recommendations: the top 5
TotalWeight == 4                 \* totalBorrowCount * 0.4, in tenths
RecentWeight == 6                \* recentBorrowCount * 0.6, in tenths

-----------------------------------------------------------------------------
(* JavaScript values *)

Undefined == [t |-> "undefined"]
Str(s) == [t |-> "string", v |-> s]
Num(n) == [t |-> "number", v |-> n]
Bool(b) == [t |-> "boolean", v |-> b]
Obj(o) == [t |-> "object", v |-> o]

\* !v
Falsy(v) ==
    \/ v.t = "undefined"
    \/ (v.t = "string" /\ v.v = "")
    \/ (v.t = "number" /\ v.v = 0)

\* userId = "anonymous": a default parameter replaces undefined only
DefaultUser(userId) == IF userId.t = "undefined" THEN Str("anonymous") ELSE userId

\* new Date().getFullYear() at clock reading t
CurrentYear(t) == StartYear + (t \div SecondsPerYear)

-----------------------------------------------------------------------------
(* Map and Set operations *)

\* index of key k in map m, 0 when absent
RECURSIVE IndexFrom(_, _, _)
IndexFrom(m, k, i) ==
    IF i > Len(m) THEN 0
    ELSE IF m[i].key = k THEN i
    ELSE IndexFrom(m, k, i + 1)

MapIndex(m, k) == IndexFrom(m, k, 1)
MapHas(m, k) == MapIndex(m, k) # 0
MapGet(m, k) == m[MapIndex(m, k)].value
MapKeys(m) == {m[i].key : i \in 1..Len(m)}

\* Map.prototype.set: replaces the value in place, or appends a new entry
MapSet(m, k, val) ==
    IF MapHas(m, k)
    THEN [m EXCEPT ![MapIndex(m, k)].value = val]
    ELSE Append(m, [key |-> k, value |-> val])

\* the sequence s without its element at index i
RemoveAt(s, i) == [j \in 1..(Len(s) - 1) |-> IF j < i THEN s[j] ELSE s[j + 1]]

\* getUserHistory, lines 139-141: this.borrowHistory.get(userId) || []
getUserHistory(hist, userId) == IF MapHas(hist, userId) THEN MapGet(hist, userId) ELSE <<>>

\* Map.prototype.delete
MapDelete(m, k) == IF MapHas(m, k) THEN RemoveAt(m, MapIndex(m, k)) ELSE m

SeqHas(s, x) == \E i \in 1..Len(s) : s[i] = x

\* new Set()
NewSet == [isSet |-> TRUE, items |-> <<>>]

\* Set.prototype.add
SetAdd(set, x) ==
    IF SeqHas(set.items, x) THEN set
    ELSE [set EXCEPT !.items = Append(set.items, x)]

\* mutant of SetDelete: nothing is removed
SetDeleteNothing(set, x) == set

\* Set.prototype.delete
SetDelete(set, x) ==
    [set EXCEPT !.items = SelectSeq(set.items, LAMBDA y : y # x)]

-----------------------------------------------------------------------------
(* Book *)

\* new Book(isbn, title, author, publicationYear)
Book(isbn, title, author, publicationYear) ==
    [isbn |-> isbn, title |-> title, author |-> author,
     publicationYear |-> publicationYear, isAvailable |-> TRUE]

-----------------------------------------------------------------------------
(* The record of a call *)

NoCall ==
    [op |-> "new", isbn |-> Undefined, title |-> Undefined, author |-> Undefined,
     year |-> Undefined, category |-> Undefined, userId |-> Undefined,
     jsonData |-> Undefined, error |-> "none", ret |-> Undefined]

Call(op, isbn, title, author, year, category, userId, error, ret) ==
    [op |-> op, isbn |-> isbn, title |-> title, author |-> author,
     year |-> year, category |-> category, userId |-> userId,
     jsonData |-> Undefined, error |-> error, ret |-> ret]

\* this.performanceMetrics.operations++
CountOperation == [performanceMetrics EXCEPT !.operations = @ + 1]

-----------------------------------------------------------------------------
(* Inputs *)

Isbns == {"k1", "k2"}
Labels == {"c1", "c2"}

IsbnArgs == {Str(k) : k \in Isbns}
TitleArgs == {Str("T")}
AuthorArgs == {Str("A")}
YearArgs == {Num(StartYear)}
CategoryArgs == {Str(c) : c \in Labels}
UserArgs == {Undefined, Str("u1")}
ClockSteps == {RetentionWindow}

\* the arguments of addBook in the specification of its validation
WideIsbnArgs == {Undefined, Str("")} \cup IsbnArgs
WideTitleArgs == {Undefined, Str(""), Str("T"), Str("T2")}
WideAuthorArgs == {Undefined, Str(""), Str("A")}
WideYearArgs ==
    {Undefined, Num(0), Num(-1), Num(MinYear - 1), Num(MinYear), Num(StartYear),
     Num(StartYear + 1), Num(StartYear + 2)}

-----------------------------------------------------------------------------
(* addBook, lines 14-33 *)

\* mutant of AddBookResult: the author is not among the required details
AddBookResultAuthorOptional(bks, isbn, title, author, publicationYear, t) ==
    IF Falsy(isbn) \/ Falsy(title) \/ Falsy(publicationYear)
    THEN [error |-> "All book details are required", books |-> bks, ret |-> Undefined]
    ELSE IF publicationYear.v < MinYear \/ publicationYear.v > CurrentYear(t)
    THEN [error |-> "Invalid publication year", books |-> bks, ret |-> Undefined]
    ELSE IF MapHas(bks, isbn.v)
    THEN [error |-> "Book with this ISBN already exists", books |-> bks, ret |-> Undefined]
    ELSE LET book == Book(isbn.v, title.v, IF Falsy(author) THEN "" ELSE author.v,
                          publicationYear.v)
         IN  [error |-> "none", books |-> MapSet(bks, isbn.v, book), ret |-> Obj(book)]

\* mutant of AddBookResult: the duplicate check of lines 26-28 is missing
AddBookResultOverwrite(bks, isbn, title, author, publicationYear, t) ==
    IF Falsy(isbn) \/ Falsy(title) \/ Falsy(author) \/ Falsy(publicationYear)
    THEN [error |-> "All book details are required", books |-> bks, ret |-> Undefined]
    ELSE IF publicationYear.v < MinYear \/ publicationYear.v > CurrentYear(t)
    THEN [error |-> "Invalid publication year", books |-> bks, ret |-> Undefined]
    ELSE LET book == Book(isbn.v, title.v, author.v, publicationYear.v)
         IN  [error |-> "none", books |-> MapSet(bks, isbn.v, book), ret |-> Obj(book)]

AddBookResult(bks, isbn, title, author, publicationYear, t) ==
    IF Falsy(isbn) \/ Falsy(title) \/ Falsy(author) \/ Falsy(publicationYear)
    THEN [error |-> "All book details are required", books |-> bks, ret |-> Undefined]
    ELSE IF publicationYear.v < MinYear \/ publicationYear.v > CurrentYear(t)
    THEN [error |-> "Invalid publication year", books |-> bks, ret |-> Undefined]
    ELSE IF MapHas(bks, isbn.v)
    THEN [error |-> "Book with this ISBN already exists", books |-> bks, ret |-> Undefined]
    ELSE LET book == Book(isbn.v, title.v, author.v, publicationYear.v)
         IN  [error |-> "none", books |-> MapSet(bks, isbn.v, book), ret |-> Obj(book)]

addBook(isbn, title, author, publicationYear) ==
    /\ LET r == AddBookResult(books, isbn, title, author, publicationYear, now)
       IN  /\ books' = r.books
           /\ last' = Call("addBook", isbn, title, author, publicationYear,
                           Undefined, Undefined, r.error, r.ret)
    /\ performanceMetrics' = CountOperation
    /\ UNCHANGED <<borrowHistory, categories, now, ticks, lending, requests>>

-----------------------------------------------------------------------------
(* addBookWithCategory, lines 35-42 *)

\* lines 37-40: the category set is created on first use, then isbn is added
\* to it; a value that is no Set has no add method and the call throws
AddToCategory(cats, category, isbn) ==
    LET cats1 == IF ~MapHas(cats, category) THEN MapSet(cats, category, NewSet) ELSE cats
        target == MapGet(cats1, category)
    IN  IF target.isSet
        THEN [error |-> "none", categories |-> MapSet(cats1, category, SetAdd(target, isbn))]
        ELSE [error |-> "TypeError", categories |-> cats1]

AddBookWithCategoryResult(bks, cats, isbn, title, author, year, category, t) ==
    LET r == AddBookResult(bks, isbn, title, author, year, t)
    IN  IF r.error # "none"
        THEN [error |-> r.error, books |-> r.books, categories |-> cats, ret |-> Undefined]
        ELSE LET c == AddToCategory(cats, category.v, isbn.v)
             IN  [error |-> c.error, books |-> r.books, categories |-> c.categories,
                  ret |-> IF c.error = "none" THEN r.ret ELSE Undefined]

addBookWithCategory(isbn, title, author, year, category) ==
    /\ LET r == AddBookWithCategoryResult(books, categories, isbn, title, author,
                                          year, category, now)
       IN  /\ books' = r.books
           /\ categories' = r.categories
           /\ last' = Call("addBookWithCategory", isbn, title, author, year,
                           category, Undefined, r.error, r.ret)
    /\ performanceMetrics' = CountOperation
    /\ UNCHANGED <<borrowHistory, now, ticks, lending, requests>>

-----------------------------------------------------------------------------
(* borrowBook, lines 44-68, and returnBook, lines 70-92 *)

\* { isbn, action, timestamp: new Date() }
Event(isbn, action, t) ==
    [isbn |-> isbn, action |-> action, timestamp |-> [isDate |-> TRUE, time |-> t]]

SetAvailable(bks, isbn, flag) ==
    MapSet(bks, isbn, [MapGet(bks, isbn) EXCEPT !.isAvailable = flag])

\* mutant of RecordBorrow: the log is not created when the user has none
RecordBorrowKnownUser(hist, user, isbn, t) ==
    IF MapHas(hist, user)
    THEN MapSet(hist, user, Append(MapGet(hist, user), Event(isbn, "borrow", t)))
    ELSE hist

\* mutant of RecordBorrow: the event is put in front of the log
RecordBorrowFirst(hist, user, isbn, t) ==
    LET hist1 == IF ~MapHas(hist, user) THEN MapSet(hist, user, <<>>) ELSE hist
    IN  MapSet(hist1, user, <<Event(isbn, "borrow", t)>> \o MapGet(hist1, user))

\* lines 57-65
RecordBorrow(hist, user, isbn, t) ==
    LET hist1 == IF ~MapHas(hist, user) THEN MapSet(hist, user, <<>>) ELSE hist
    IN  MapSet(hist1, user, Append(MapGet(hist1, user), Event(isbn, "borrow", t)))

\* lines 83-89
RecordReturn(hist, user, isbn, t) ==
    IF MapHas(hist, user)
    THEN MapSet(hist, user, Append(MapGet(hist, user), Event(isbn, "return", t)))
    ELSE hist

\* mutant of BorrowResult: the availability check of lines 51-53 is missing
BorrowResultUnchecked(bks, hist, isbn, userId, t) ==
    IF ~MapHas(bks, isbn.v)
    THEN [error |-> "Book not found", books |-> bks, borrowHistory |-> hist, ret |-> Undefined]
    ELSE LET bks1 == SetAvailable(bks, isbn.v, FALSE)
         IN  [error |-> "none", books |-> bks1,
              borrowHistory |-> RecordBorrow(hist, DefaultUser(userId).v, isbn.v, t),
              ret |-> Obj(MapGet(bks1, isbn.v))]

\* mutant of ReturnResult: the event is pushed before the availability check
ReturnResultEager(bks, hist, isbn, userId, t) ==
    IF ~MapHas(bks, isbn.v)
    THEN [error |-> "Book not found", books |-> bks, borrowHistory |-> hist, ret |-> Undefined]
    ELSE IF MapGet(bks, isbn.v).isAvailable
    THEN [error |-> "Book is already in library", books |-> bks,
          borrowHistory |-> RecordReturn(hist, DefaultUser(userId).v, isbn.v, t),
          ret |-> Undefined]
    ELSE LET bks1 == SetAvailable(bks, isbn.v, TRUE)
         IN  [error |-> "none", books |-> bks1,
              borrowHistory |-> RecordReturn(hist, DefaultUser(userId).v, isbn.v, t),
              ret |-> Obj(MapGet(bks1, isbn.v))]

BorrowResult(bks, hist, isbn, userId, t) ==
    IF ~MapHas(bks, isbn.v)
    THEN [error |-> "Book not found", books |-> bks, borrowHistory |-> hist, ret |-> Undefined]
    ELSE IF ~MapGet(bks, isbn.v).isAvailable
    THEN [error |-> "Book is not available", books |-> bks, borrowHistory |-> hist,
          ret |-> Undefined]
    ELSE LET bks1 == SetAvailable(bks, isbn.v, FALSE)
         IN  [error |-> "none", books |-> bks1,
              borrowHistory |-> RecordBorrow(hist, DefaultUser(userId).v, isbn.v, t),
              ret |-> Obj(MapGet(bks1, isbn.v))]

ReturnResult(bks, hist, isbn, userId, t) ==
    IF ~MapHas(bks, isbn.v)
    THEN [error |-> "Book not found", books |-> bks, borrowHistory |-> hist, ret |-> Undefined]
    ELSE IF MapGet(bks, isbn.v).isAvailable
    THEN [error |-> "Book is already in library", books |-> bks, borrowHistory |-> hist,
          ret |-> Undefined]
    ELSE LET bks1 == SetAvailable(bks, isbn.v, TRUE)
         IN  [error |-> "none", books |-> bks1,
              borrowHistory |-> RecordReturn(hist, DefaultUser(userId).v, isbn.v, t),
              ret |-> Obj(MapGet(bks1, isbn.v))]

\* the history variable: the last successful lending operation on each key,
\* and whether an import or a successful delete of the key came after it
Lent(l, isbn, error, action) ==
    IF error = "none"
    THEN [l EXCEPT ![isbn] = [lastOk |-> action, imported |-> FALSE, deleted |-> FALSE]]
    ELSE l

\* the call, whoever makes it
BorrowBookCall(isbn, userId) ==
    /\ LET r == BorrowResult(books, borrowHistory, isbn, userId, now)
       IN  /\ books' = r.books
           /\ borrowHistory' = r.borrowHistory
           /\ last' = Call("borrowBook", isbn, Undefined, Undefined, Undefined,
                           Undefined, userId, r.error, r.ret)
           /\ lending' = Lent(lending, isbn.v, r.error, "borrow")
    /\ performanceMetrics' = CountOperation
    /\ UNCHANGED <<categories, now, ticks>>

borrowBook(isbn, userId) ==
    /\ BorrowBookCall(isbn, userId)
    /\ UNCHANGED requests

returnBook(isbn, userId) ==
    /\ LET r == ReturnResult(books, borrowHistory, isbn, userId, now)
       IN  /\ books' = r.books
           /\ borrowHistory' = r.borrowHistory
           /\ last' = Call("returnBook", isbn, Undefined, Undefined, Undefined,
                           Undefined, userId, r.error, r.ret)
           /\ lending' = Lent(lending, isbn.v, r.error, "return")
    /\ performanceMetrics' = CountOperation
    /\ UNCHANGED <<categories, now, ticks, requests>>

-----------------------------------------------------------------------------
(* deleteBook, lines 94-111 *)

\* mutant of ForEachDelete: only the first category is visited
ForEachDeleteFirst(cats, isbn, i) ==
    IF Len(cats) = 0 THEN [error |-> "none", categories |-> cats]
    ELSE IF ~cats[1].value.isSet THEN [error |-> "TypeError", categories |-> cats]
    ELSE [error |-> "none", categories |-> [cats EXCEPT ![1].value = SetDelete(@, isbn)]]

\* lines 106-108: this.categories.forEach(categoryBooks => categoryBooks.delete(isbn)),
\* from entry i on; the loop ends at the first value that has no delete method
RECURSIVE ForEachDelete(_, _, _)
ForEachDelete(cats, isbn, i) ==
    IF i > Len(cats) THEN [error |-> "none", categories |-> cats]
    ELSE IF ~cats[i].value.isSet THEN [error |-> "TypeError", categories |-> cats]
    ELSE ForEachDelete([cats EXCEPT ![i].value = SetDelete(@, isbn)], isbn, i + 1)

DeleteResult(bks, cats, isbn) ==
    IF ~MapHas(bks, isbn.v)
    THEN [error |-> "Book not found", books |-> bks, categories |-> cats, ret |-> Undefined]
    ELSE IF ~MapGet(bks, isbn.v).isAvailable
    THEN [error |-> "Cannot delete borrowed book", books |-> bks, categories |-> cats,
          ret |-> Undefined]
    ELSE LET c == ForEachDelete(cats, isbn.v, 1)
         IN  IF c.error # "none"
             THEN [error |-> c.error, books |-> bks, categories |-> c.categories,
                   ret |-> Undefined]
             ELSE [error |-> "none", books |-> MapDelete(bks, isbn.v),
                   categories |-> c.categories, ret |-> Bool(MapHas(bks, isbn.v))]

\* mutant of deleteBook: the events of the key are removed from every log
deleteBookAndEvents(isbn) ==
    /\ LET r == DeleteResult(books, categories, isbn)
       IN  /\ books' = r.books
           /\ categories' = r.categories
           /\ last' = Call("deleteBook", isbn, Undefined, Undefined, Undefined,
                           Undefined, Undefined, r.error, r.ret)
           /\ borrowHistory' =
                 IF r.error = "none"
                 THEN [e \in 1..Len(borrowHistory) |->
                          [borrowHistory[e] EXCEPT
                              !.value = SelectSeq(@, LAMBDA record : record.isbn # isbn.v)]]
                 ELSE borrowHistory
    /\ lending' = IF last'.error = "none"
                  THEN [lending EXCEPT ![isbn.v].deleted = TRUE]
                  ELSE lending
    /\ performanceMetrics' = CountOperation
    /\ UNCHANGED <<now, ticks, requests>>

deleteBook(isbn) ==
    /\ LET r == DeleteResult(books, categories, isbn)
       IN  /\ books' = r.books
           /\ categories' = r.categories
           /\ last' = Call("deleteBook", isbn, Undefined, Undefined, Undefined,
                           Undefined, Undefined, r.error, r.ret)
    /\ lending' = IF last'.error = "none"
                  THEN [lending EXCEPT ![isbn.v].deleted = TRUE]
                  ELSE lending
    /\ performanceMetrics' = CountOperation
    /\ UNCHANGED <<borrowHistory, now, ticks, requests>>

-----------------------------------------------------------------------------
(* getAvailableBooks, lines 113-116 *)

\* Array.from(this.books.values())
MapValues(m) == [i \in 1..Len(m) |-> m[i].value]

\* mutant of GetAvailableBooksResult: the filter is missing
GetAvailableBooksResultAll(bks) == MapValues(bks)

\* Array.from(this.books.values()).filter((book) => book.isAvailable)
GetAvailableBooksResult(bks) == SelectSeq(MapValues(bks), LAMBDA b : b.isAvailable)

getAvailableBooks ==
    /\ last' = [NoCall EXCEPT !.op = "getAvailableBooks",
                              !.ret = GetAvailableBooksResult(books)]
    /\ performanceMetrics' = CountOperation
    /\ UNCHANGED <<books, borrowHistory, categories, now, ticks, lending, requests>>

-----------------------------------------------------------------------------
(* exportToJSON, lines 143-149, and importFromJSON, lines 151-157 *)

\* JSON.stringify of a Set, which has no enumerable property: {}
JsonOfSet(set) == [isSet |-> FALSE, items |-> <<>>]

\* JSON.stringify of an event: the Date becomes its ISO string
JsonOfEvent(e) == [e EXCEPT !.timestamp.isDate = FALSE]

JsonOfCategories(cats) ==
    [i \in 1..Len(cats) |-> [key |-> cats[i].key, value |-> JsonOfSet(cats[i].value)]]

JsonOfHistory(hist) ==
    [i \in 1..Len(hist) |->
        [key |-> hist[i].key,
         value |-> [j \in 1..Len(hist[i].value) |-> JsonOfEvent(hist[i].value[j])]]]

\* JSON.stringify of a book: an object of its own fields
JsonOfBook(b) ==
    [isbn |-> b.isbn, title |-> b.title, author |-> b.author,
     publicationYear |-> b.publicationYear, isAvailable |-> b.isAvailable]

JsonOfBooks(bks) ==
    [i \in 1..Len(bks) |-> [key |-> bks[i].key, value |-> JsonOfBook(bks[i].value)]]

\* what a JSON text holds under one of the three names: a list of entries,
\* nothing, or a value that cannot be iterated (a number, an object)
FieldKinds == {"entries", "absent", "notIterable"}

ExportResult(bks, cats, hist) ==
    [t |-> "json", books |-> JsonOfBooks(bks), categories |-> JsonOfCategories(cats),
     borrowHistory |-> JsonOfHistory(hist),
     kinds |-> [books |-> "entries", categories |-> "entries", borrowHistory |-> "entries"]]

exportToJSON ==
    /\ last' = [NoCall EXCEPT !.op = "exportToJSON",
                              !.ret = ExportResult(books, categories, borrowHistory)]
    /\ UNCHANGED <<books, borrowHistory, categories, performanceMetrics, now, ticks, lending, requests>>

\* new Map(x): the entries of a list, no entry for undefined, and a TypeError
\* for a value that is not iterable
NewMap(kind, entries) ==
    IF kind = "entries" THEN [error |-> "none", map |-> entries]
    ELSE IF kind = "absent" THEN [error |-> "none", map |-> <<>>]
    ELSE [error |-> "TypeError", map |-> <<>>]

\* mutant of ImportResult: the entries of the text are added to the stores
ImportResultMerge(bks, cats, hist, jsonData) ==
    IF jsonData.t # "json"
    THEN [error |-> "SyntaxError", books |-> bks, categories |-> cats,
          borrowHistory |-> hist, ret |-> Undefined]
    ELSE [error |-> "none", books |-> bks \o jsonData.books,
          categories |-> cats \o jsonData.categories,
          borrowHistory |-> hist \o jsonData.borrowHistory, ret |-> Bool(TRUE)]

\* JSON.parse (line 152), then the three Maps are rebuilt one after the other
\* from data.books, data.categories and data.borrowHistory (lines 153-155);
\* a text that is not JSON throws in line 152, the text null in line 153
ImportResult(bks, cats, hist, jsonData) ==
    IF jsonData.t = "text"
    THEN [error |-> "SyntaxError", books |-> bks, categories |-> cats,
          borrowHistory |-> hist, ret |-> Undefined]
    ELSE IF jsonData.t = "null"
    THEN [error |-> "TypeError", books |-> bks, categories |-> cats,
          borrowHistory |-> hist, ret |-> Undefined]
    ELSE LET b == NewMap(jsonData.kinds.books, jsonData.books)
             c == NewMap(jsonData.kinds.categories, jsonData.categories)
             h == NewMap(jsonData.kinds.borrowHistory, jsonData.borrowHistory)
         IN  IF b.error # "none"
             THEN [error |-> b.error, books |-> bks, categories |-> cats,
                   borrowHistory |-> hist, ret |-> Undefined]
             ELSE IF c.error # "none"
             THEN [error |-> c.error, books |-> b.map, categories |-> cats,
                   borrowHistory |-> hist, ret |-> Undefined]
             ELSE IF h.error # "none"
             THEN [error |-> h.error, books |-> b.map, categories |-> c.map,
                   borrowHistory |-> hist, ret |-> Undefined]
             ELSE [error |-> "none", books |-> b.map, categories |-> c.map,
                   borrowHistory |-> h.map, ret |-> Bool(TRUE)]

importFromJSON(jsonData) ==
    /\ LET r == ImportResult(books, categories, borrowHistory, jsonData)
       IN  /\ books' = r.books
           /\ categories' = r.categories
           /\ borrowHistory' = r.borrowHistory
           /\ last' = [NoCall EXCEPT !.op = "importFromJSON", !.jsonData = jsonData,
                                     !.error = r.error, !.ret = r.ret]
    /\ lending' = [k \in DOMAIN lending |-> [lending[k] EXCEPT !.imported = TRUE]]
    /\ UNCHANGED <<performanceMetrics, now, ticks, requests>>

-----------------------------------------------------------------------------
(* getBorrowingStats, lines 159-182 *)

\* the records in the order the two nested forEach visit them
RECURSIVE RecordsFrom(_, _)
RecordsFrom(hist, i) ==
    IF i > Len(hist) THEN <<>> ELSE hist[i].value \o RecordsFrom(hist, i + 1)

\* stats.popularBooks.get(record.isbn) || 0
CountOf(m, k) == IF MapHas(m, k) THEN MapGet(m, k) ELSE 0

\* mutant of CountBorrows: every record is counted, whatever its action
RECURSIVE CountRecords(_, _, _)
CountRecords(records, i, stats) ==
    IF i > Len(records) THEN stats
    ELSE LET record == records[i]
         IN  CountRecords(records, i + 1,
                 [stats EXCEPT !.totalBorrows = @ + 1,
                               !.popularBooks = MapSet(@, record.isbn,
                                                       CountOf(@, record.isbn) + 1)])

\* lines 167-175
RECURSIVE CountBorrows(_, _, _)
CountBorrows(records, i, stats) ==
    IF i > Len(records) THEN stats
    ELSE LET record == records[i]
         IN  IF record.action = "borrow"
             THEN CountBorrows(records, i + 1,
                      [stats EXCEPT !.totalBorrows = @ + 1,
                                    !.popularBooks = MapSet(@, record.isbn,
                                                            CountOf(@, record.isbn) + 1)])
             ELSE CountBorrows(records, i + 1, stats)

\* mutant of ActiveLoans: the borrow records that no later return record of
\* the history answers
ActiveLoansFromHistory(bks) ==
    LET records == RecordsFrom(borrowHistory, 1)
    IN  Cardinality({i \in 1..Len(records) : records[i].action = "borrow"})
            - Cardinality({i \in 1..Len(records) : records[i].action = "return"})

\* lines 177-179
ActiveLoans(bks) == Len(SelectSeq(MapValues(bks), LAMBDA book : ~book.isAvailable))

GetBorrowingStatsResult(bks, hist) ==
    LET stats == [totalBorrows |-> 0, activeLoans |-> 0, popularBooks |-> <<>>,
                  averageLoanDuration |-> 0]
    IN  [CountBorrows(RecordsFrom(hist, 1), 1, stats) EXCEPT !.activeLoans = ActiveLoans(bks)]

\* the statistics with the genre popularity, which the tests of
\* getBorrowingStats read and the library file at hand does not compute

\* a category's book set contains the key; an imported {} contains nothing
SetHas(set, x) == set.isSet /\ SeqHas(set.items, x)

\* for each category whose book set contains the key, increment its counter
RECURSIVE CountGenres(_, _, _, _)
CountGenres(cats, j, isbn, genres) ==
    IF j > Len(cats) THEN genres
    ELSE IF SetHas(cats[j].value, isbn)
    THEN CountGenres(cats, j + 1, isbn,
                     MapSet(genres, cats[j].key, CountOf(genres, cats[j].key) + 1))
    ELSE CountGenres(cats, j + 1, isbn, genres)

\* mutant of GenrePopularity: a borrow counts for the first category only
RECURSIVE GenrePopularityFirstLabel(_, _, _, _)
GenrePopularityFirstLabel(cats, records, i, genres) ==
    IF i > Len(records) THEN genres
    ELSE IF records[i].action = "borrow" /\ Len(cats) > 0
    THEN GenrePopularityFirstLabel(cats, records, i + 1,
             CountGenres(SubSeq(cats, 1, 1), 1, records[i].isbn, genres))
    ELSE GenrePopularityFirstLabel(cats, records, i + 1, genres)

\* for each borrow event, for each category whose book set contains that
\* book's key
RECURSIVE GenrePopularity(_, _, _, _)
GenrePopularity(cats, records, i, genres) ==
    IF i > Len(records) THEN genres
    ELSE IF records[i].action = "borrow"
    THEN GenrePopularity(cats, records, i + 1, CountGenres(cats, 1, records[i].isbn, genres))
    ELSE GenrePopularity(cats, records, i + 1, genres)

\* the average loan duration, which the library file at hand leaves 0: for
\* each actor log, processed in order, track the open borrow timestamp; on a
\* return with an open borrow, accumulate returnTime - borrowTime and
\* increment a returns counter; a return with no open borrow is ignored
NoOpenBorrow == [open |-> FALSE, time |-> 0]

\* mutant of TrackLog: a return leaves the borrow open
RECURSIVE TrackLogKeepOpen(_, _, _, _)
TrackLogKeepOpen(log, j, pending, acc) ==
    IF j > Len(log) THEN acc
    ELSE IF log[j].action = "borrow"
    THEN TrackLogKeepOpen(log, j + 1, [open |-> TRUE, time |-> log[j].timestamp.time], acc)
    ELSE IF pending.open
    THEN TrackLogKeepOpen(log, j + 1, pending,
                          [total |-> acc.total + (log[j].timestamp.time - pending.time),
                           returns |-> acc.returns + 1])
    ELSE TrackLogKeepOpen(log, j + 1, pending, acc)

RECURSIVE TrackLog(_, _, _, _)
TrackLog(log, j, pending, acc) ==
    IF j > Len(log) THEN acc
    ELSE IF log[j].action = "borrow"
    THEN TrackLog(log, j + 1, [open |-> TRUE, time |-> log[j].timestamp.time], acc)
    ELSE IF pending.open
    THEN TrackLog(log, j + 1, NoOpenBorrow,
                  [total |-> acc.total + (log[j].timestamp.time - pending.time),
                   returns |-> acc.returns + 1])
    ELSE TrackLog(log, j + 1, pending, acc)

RECURSIVE TrackLogs(_, _, _)
TrackLogs(hist, i, acc) ==
    IF i > Len(hist) THEN acc
    ELSE TrackLogs(hist, i + 1, TrackLog(hist[i].value, 1, NoOpenBorrow, acc))

\* a quotient of two numbers, kept as the pair
Quotient(a, b) == [num |-> a, den |-> b]

\* total accumulated duration / returns counter, or 0 if no returns observed
AverageLoanDuration(hist) ==
    LET acc == TrackLogs(hist, 1, [total |-> 0, returns |-> 0])
    IN  IF acc.returns = 0 THEN Quotient(0, 1) ELSE Quotient(acc.total, acc.returns)

WithGenrePopularity(stats, cats, hist) ==
    [totalBorrows |-> stats.totalBorrows, activeLoans |-> stats.activeLoans,
     popularBooks |-> stats.popularBooks, averageLoanDuration |-> AverageLoanDuration(hist),
     genrePopularity |-> GenrePopularity(cats, RecordsFrom(hist, 1), 1, <<>>)]

getBorrowingStats ==
    /\ last' = [NoCall EXCEPT !.op = "getBorrowingStats",
                              !.ret = WithGenrePopularity(
                                          GetBorrowingStatsResult(books, borrowHistory),
                                          categories, borrowHistory)]
    /\ UNCHANGED <<books, borrowHistory, categories, performanceMetrics, now, ticks, lending, requests>>

-----------------------------------------------------------------------------
(* getPopularityAnalytics, which GET /analytics calls (app.js, lines 71-75) *)

\* the entries of a Map sorted descending by value; entries of equal value
\* keep their order
InsertByValue(sorted, e) ==
    LET p == Cardinality({i \in 1..Len(sorted) : sorted[i].value >= e.value})
    IN  SubSeq(sorted, 1, p) \o <<e>> \o SubSeq(sorted, p + 1, Len(sorted))

RECURSIVE SortByValue(_, _)
SortByValue(entries, n) ==
    IF n = 0 THEN <<>> ELSE InsertByValue(SortByValue(entries, n - 1), entries[n])

Take(s, n) == SubSeq(s, 1, IF Len(s) < n THEN Len(s) ELSE n)

\* mutant of TopBooks: the counts in the order of the Map, not sorted
TopBooksUnsorted(popularBooks) ==
    LET top == Take(popularBooks, TopBooksLimit)
    IN  [i \in 1..Len(top) |-> [isbn |-> top[i].key, borrowCount |-> top[i].value]]

\* popularity counts sorted descending by count, truncated to the top 10
TopBooks(popularBooks) ==
    LET top == Take(SortByValue(popularBooks, Len(popularBooks)), TopBooksLimit)
    IN  [i \in 1..Len(top) |-> [isbn |-> top[i].key, borrowCount |-> top[i].value]]

\* daily bucket key: the calendar date (UTC) of the borrow event
DayOf(t) == t \div SecondsPerDay

RECURSIVE DailyTrends(_, _, _)
DailyTrends(records, i, daily) ==
    IF i > Len(records) THEN daily
    ELSE IF records[i].action = "borrow"
    THEN LET day == DayOf(records[i].timestamp.time)
         IN  DailyTrends(records, i + 1, MapSet(daily, day, CountOf(daily, day) + 1))
    ELSE DailyTrends(records, i + 1, daily)

\* the sum of the daily buckets within the most recent 30 days (inclusive)
RECURSIVE RecentBorrowCount(_, _, _)
RecentBorrowCount(daily, i, t) ==
    IF i > Len(daily) THEN 0
    ELSE (IF DayOf(t) - daily[i].key <= RecentDays THEN daily[i].value ELSE 0)
            + RecentBorrowCount(daily, i + 1, t)

\* score = totalBorrowCount * 0.4 + recentBorrowCount * 0.6, in tenths
Score(total, recent) == TotalWeight * total + RecentWeight * recent

\* mutant of Recommendations: the score is the total count alone, and
\* nothing is truncated
RecommendationsAll(popularBooks, recent) ==
    LET top == SortByValue(popularBooks, Len(popularBooks))
    IN  [i \in 1..Len(top) |-> [isbn |-> top[i].key, score |-> top[i].value]]

\* top 5 books by popularity score descending
Recommendations(popularBooks, recent) ==
    LET scores == [i \in 1..Len(popularBooks) |->
                      [key |-> popularBooks[i].key,
                       value |-> Score(popularBooks[i].value, recent)]]
        top == Take(SortByValue(scores, Len(scores)), RecommendationLimit)
    IN  [i \in 1..Len(top) |-> [isbn |-> top[i].key, score |-> top[i].value]]

GetPopularityAnalyticsResult(bks, cats, hist, t) ==
    LET stats == WithGenrePopularity(GetBorrowingStatsResult(bks, hist), cats, hist)
        daily == DailyTrends(RecordsFrom(hist, 1), 1, <<>>)
    IN  [topBooks |-> TopBooks(stats.popularBooks),
         trendingGenres |-> SortByValue(stats.genrePopularity, Len(stats.genrePopularity)),
         trends |-> [daily |-> daily],
         recommendations |-> Recommendations(stats.popularBooks,
                                             RecentBorrowCount(daily, 1, t))]

\* app.get("/analytics", ...): res.json(library.getPopularityAnalytics())
GetAnalytics ==
    /\ last' = [NoCall EXCEPT !.op = "GET /analytics",
                              !.ret = [status |-> 200,
                                       body |-> GetPopularityAnalyticsResult(
                                                    books, categories, borrowHistory, now)]]
    /\ UNCHANGED <<books, borrowHistory, categories, performanceMetrics, now, ticks, lending, requests>>

-----------------------------------------------------------------------------
(* searchBooks, lines 118-130; here a string is the sequence of its
   characters *)

\* String.prototype.toLowerCase, on the letters the searched texts are made of
LowerCaseOf(c) == IF c = "A" THEN "a" ELSE IF c = "B" THEN "b" ELSE c

\* mutant of ToLowerCase: the text as it is
KeepCase(text) == text

ToLowerCase(text) == [i \in 1..Len(text) |-> LowerCaseOf(text[i])]

\* String.prototype.includes
Includes(text, part) ==
    \E i \in 0..(Len(text) - Len(part)) : SubSeq(text, i + 1, i + Len(part)) = part

\* Number.prototype.toString of a natural number
DigitOf(d) == <<"0", "1", "2", "3", "4", "5", "6", "7", "8", "9">>[d + 1]

RECURSIVE NumberToString(_)
NumberToString(n) ==
    IF n < 10 THEN <<DigitOf(n)>> ELSE NumberToString(n \div 10) \o <<DigitOf(n % 10)>>

\* !query, for undefined and for a string
NoQuery(query) == query.t = "undefined" \/ (query.t = "string" /\ Len(query.v) = 0)

SearchBooksResult(bks, query) ==
    IF NoQuery(query) THEN <<>>
    ELSE LET searchTerm == ToLowerCase(query.v)
         IN  SelectSeq(MapValues(bks),
                 LAMBDA book :
                     \/ Includes(ToLowerCase(book.title), searchTerm)
                     \/ Includes(ToLowerCase(book.author), searchTerm)
                     \/ Includes(ToLowerCase(book.isbn), searchTerm)
                     \/ Includes(NumberToString(book.publicationYear), searchTerm))

searchBooks(query) ==
    /\ last' = [NoCall EXCEPT !.op = "searchBooks", !.title = query,
                              !.ret = SearchBooksResult(books, query)]
    /\ performanceMetrics' = CountOperation
    /\ UNCHANGED <<books, borrowHistory, categories, now, ticks, lending, requests>>

-----------------------------------------------------------------------------
(* getBooksByCategory, lines 132-137 *)

\* mutant of GetBooksByCategoryResult: the lookups that miss are kept
GetBooksByCategoryResultAll(bks, cats, category) ==
    LET bookIds == IF MapHas(cats, category) THEN MapGet(cats, category).items ELSE <<>>
    IN  [i \in 1..Len(bookIds) |->
            IF MapHas(bks, bookIds[i]) THEN MapGet(bks, bookIds[i]) ELSE Undefined]

\* Array.from of the Set of the category, or of a new Set for a category
\* there is none of (Array.from of the object {} an import leaves is empty
\* too); the lookups in the registry, less those that miss
GetBooksByCategoryResult(bks, cats, category) ==
    LET bookIds == IF MapHas(cats, category) THEN MapGet(cats, category).items ELSE <<>>
        found == [i \in 1..Len(bookIds) |->
                     IF MapHas(bks, bookIds[i]) THEN MapGet(bks, bookIds[i]) ELSE Undefined]
    IN  SelectSeq(found, LAMBDA book : book # Undefined)

getBooksByCategory(category) ==
    /\ last' = [NoCall EXCEPT !.op = "getBooksByCategory", !.category = category,
                              !.ret = GetBooksByCategoryResult(books, categories, category.v)]
    /\ UNCHANGED <<books, borrowHistory, categories, performanceMetrics, now, ticks, lending, requests>>

-----------------------------------------------------------------------------
(* app.js: POST /books/:isbn/borrow, lines 36-45 *)

\* a request that the server has received and whose route callback has not
\* run yet; available is a history field: whether the book was in the
\* registry and available when the request came in
Request(isbn, userId, available) ==
    [isbn |-> isbn, userId |-> userId, available |-> available, state |-> "received",
     status |-> 0, error |-> "none"]

\* the request comes in: express reads and parses its body (line 5) while
\* other requests are served
ReceiveBorrow(isbn, userId) ==
    /\ requests' = Append(requests,
                        Request(isbn, userId,
                                MapHas(books, isbn.v) /\ MapGet(books, isbn.v).isAvailable))
    /\ last' = [NoCall EXCEPT !.op = "request"]
    /\ UNCHANGED <<books, borrowHistory, categories, performanceMetrics, now, ticks, lending>>

\* res.json(book), or res.status(400).json({ error: error.message })
BorrowResponse(request, error) ==
    [request EXCEPT !.state = "responded",
                    !.status = IF error = "none" THEN 200 ELSE 400,
                    !.error = error]

\* mutant of PostBorrow: the availability is checked when the request comes
\* in, and the book is lent when the callback runs
PostBorrowSuspended(r) ==
    /\ requests[r].state = "received"
    /\ LET res == IF requests[r].available
                  THEN BorrowResultUnchecked(books, borrowHistory, requests[r].isbn,
                                             requests[r].userId, now)
                  ELSE BorrowResult(books, borrowHistory, requests[r].isbn,
                                    requests[r].userId, now)
       IN  /\ books' = res.books
           /\ borrowHistory' = res.borrowHistory
           /\ last' = Call("borrowBook", requests[r].isbn, Undefined, Undefined, Undefined,
                           Undefined, requests[r].userId, res.error, res.ret)
           /\ lending' = Lent(lending, requests[r].isbn.v, res.error, "borrow")
           /\ requests' = [requests EXCEPT ![r] = BorrowResponse(@, res.error)]
    /\ performanceMetrics' = CountOperation
    /\ UNCHANGED <<categories, now, ticks>>

\* the route callback of request r: it has no await and no callback of its
\* own, so the call of borrowBook and the response are one step of the
\* event loop
PostBorrow(r) ==
    /\ requests[r].state = "received"
    /\ BorrowBookCall(requests[r].isbn, requests[r].userId)
    /\ requests' = [requests EXCEPT ![r] = BorrowResponse(@, last'.error)]

-----------------------------------------------------------------------------
(* getPerformanceMetrics, lines 184-192 *)

\* a / b on JavaScript numbers that are not negative: 0 / 0 is NaN, a
\* positive number / 0 is Infinity, and no division raises an error
Divide(a, b) ==
    IF b = 0
    THEN IF a = 0 THEN [t |-> "NaN"] ELSE [t |-> "Infinity"]
    ELSE [t |-> "number", num |-> a, den |-> b]

\* the clock counts seconds: uptime is in seconds here, and (uptime in ms) /
\* 1000 is that number
GetPerformanceMetricsResult(metrics, t) ==
    [startTime |-> metrics.startTime, operations |-> metrics.operations,
     lastOptimization |-> metrics.lastOptimization,
     uptime |-> t - metrics.startTime,
     operationsPerSecond |-> Divide(metrics.operations, t - metrics.startTime)]

getPerformanceMetrics ==
    /\ last' = [NoCall EXCEPT !.op = "getPerformanceMetrics",
                              !.ret = GetPerformanceMetricsResult(performanceMetrics, now)]
    /\ UNCHANGED <<books, borrowHistory, categories, performanceMetrics, now, ticks, lending, requests>>

-----------------------------------------------------------------------------
(* optimizePerformance, lines 194-209 *)

\* now - record.timestamp < 31536000000; a timestamp that is a string gives
\* NaN, and NaN < x is false
IsRecent(e, t) == e.timestamp.isDate /\ t - e.timestamp.time < RetentionWindow

OptimizeHistory(hist, t) ==
    [i \in 1..Len(hist) |->
        [key |-> hist[i].key,
         value |-> SelectSeq(hist[i].value, LAMBDA e : IsRecent(e, t))]]

\* mutant of ShouldOptimize: a run as soon as the interval has elapsed
ShouldOptimizeAtInterval(t, lastOptimization) ==
    t - lastOptimization >= OptimizationInterval

\* line 196
ShouldOptimize(t, lastOptimization) == t - lastOptimization > OptimizationInterval

optimizePerformance ==
    /\ IF ShouldOptimize(now, performanceMetrics.lastOptimization)
       THEN /\ borrowHistory' = OptimizeHistory(borrowHistory, now)
            /\ performanceMetrics' = [performanceMetrics EXCEPT !.lastOptimization = now]
       ELSE UNCHANGED <<borrowHistory, performanceMetrics>>
    /\ last' = [NoCall EXCEPT !.op = "optimizePerformance"]
    /\ UNCHANGED <<books, categories, now, ticks, lending, requests>>

-----------------------------------------------------------------------------
(* The clock *)

Tick(d) ==
    /\ now' = now + d
    /\ ticks' = ticks + 1
    /\ last' = [NoCall EXCEPT !.op = "tick"]
    /\ UNCHANGED <<books, borrowHistory, categories, performanceMetrics, lending, requests>>

-----------------------------------------------------------------------------
(* Snapshots given to importFromJSON: the texts exportToJSON returns in two
   libraries, each built from new Library() by the calls shown *)

\* addBookWithCategory("k1", "T", "A", StartYear, "c1"); borrowBook("k1", "u1")
OnLoanLibrary ==
    LET a == AddBookWithCategoryResult(<<>>, <<>>, Str("k1"), Str("T"), Str("A"),
                                       Num(StartYear), Str("c1"), 0)
        b == BorrowResult(a.books, <<>>, Str("k1"), Str("u1"), 0)
    IN  [books |-> b.books, categories |-> a.categories, borrowHistory |-> b.borrowHistory]

\* addBookWithCategory("k1", "T", "A", StartYear, "c1"); addBook("k2", "T", "A", StartYear)
AvailableLibrary ==
    LET a == AddBookWithCategoryResult(<<>>, <<>>, Str("k1"), Str("T"), Str("A"),
                                       Num(StartYear), Str("c1"), 0)
        b == AddBookResult(a.books, Str("k2"), Str("T"), Str("A"), Num(StartYear), 0)
    IN  [books |-> b.books, categories |-> a.categories, borrowHistory |-> <<>>]

Snapshots ==
    {ExportResult(l.books, l.categories, l.borrowHistory) :
        l \in {OnLoanLibrary, AvailableLibrary}}

JsonInputs == Snapshots

\* texts that are no snapshot: no JSON at all, the JSON text null, and JSON
\* objects in which one of the three names is missing or holds a number
EntryFree(kinds) ==
    [t |-> "json", books |-> <<>>, categories |-> <<>>, borrowHistory |-> <<>>,
     kinds |-> kinds]

MalformedInputs ==
    {[t |-> "text"], [t |-> "null"]}
        \cup {EntryFree(kinds) :
                kinds \in {f \in [{"books", "categories", "borrowHistory"} -> FieldKinds] :
                             \E n \in DOMAIN f : f[n] # "entries"}}

-----------------------------------------------------------------------------
(* Initial state: new Library(), lines 3-12 *)

Init ==
    /\ books = <<>>
    /\ borrowHistory = <<>>
    /\ categories = <<>>
    /\ now = 0
    /\ ticks = 0
    /\ performanceMetrics = [startTime |-> 0, operations |-> 0, lastOptimization |-> 0]
    /\ last = NoCall
    /\ lending = [k \in Isbns |-> [lastOk |-> "none", imported |-> FALSE, deleted |-> FALSE]]
    /\ requests = <<>>

\* the bounds: the operation counter and the clock stop at MaxOps and MaxTicks
Counted == performanceMetrics.operations < MaxOps

Next ==
    \/ /\ Counted
       /\ \E isbn \in IsbnArgs, title \in TitleArgs, author \in AuthorArgs, year \in YearArgs :
             addBook(isbn, title, author, year)
    \/ /\ Counted
       /\ \E isbn \in IsbnArgs, title \in TitleArgs, author \in AuthorArgs,
             year \in YearArgs, category \in CategoryArgs :
             addBookWithCategory(isbn, title, author, year, category)
    \/ Counted /\ \E isbn \in IsbnArgs, userId \in UserArgs : borrowBook(isbn, userId)
    \/ Counted /\ \E isbn \in IsbnArgs, userId \in UserArgs : returnBook(isbn, userId)
    \/ Counted /\ \E isbn \in IsbnArgs : deleteBook(isbn)
    \/ exportToJSON
    \/ \E jsonData \in JsonInputs : importFromJSON(jsonData)
    \/ optimizePerformance
    \/ ticks < MaxTicks /\ \E d \in ClockSteps : Tick(d)

Spec == Init /\ [][Next]_vars

\* addBook over the wide arguments, in libraries that imports and the clock vary
AddCounted == performanceMetrics.operations < MaxAddOps

NextAdd ==
    \/ /\ AddCounted
       /\ \E isbn \in WideIsbnArgs, title \in WideTitleArgs, author \in WideAuthorArgs,
             year \in WideYearArgs :
             addBook(isbn, title, author, year)
    \/ \E jsonData \in JsonInputs : importFromJSON(jsonData)
    \/ ticks < MaxTicks /\ \E d \in ClockSteps : Tick(d)

SpecAdd == Init /\ [][NextAdd]_vars

\* addBookWithCategory over arguments that reach each failure of the embedded
\* addBook, in libraries that imports vary
CategoryTitleArgs == {Undefined, Str("T")}
CategoryAuthorArgs == {Str(""), Str("A")}
CategoryYearArgs == {Undefined, Num(MinYear - 1), Num(StartYear), Num(StartYear + 1)}

NextCategory ==
    \/ /\ AddCounted
       /\ \E isbn \in WideIsbnArgs, title \in CategoryTitleArgs,
             author \in CategoryAuthorArgs, year \in CategoryYearArgs,
             category \in CategoryArgs :
             addBookWithCategory(isbn, title, author, year, category)
    \/ \E jsonData \in JsonInputs : importFromJSON(jsonData)

SpecCategory == Init /\ [][NextCategory]_vars

\* importFromJSON over snapshots and malformed texts, in libraries that
\* addBookWithCategory and borrowBook fill
NextImport ==
    \/ /\ AddCounted
       /\ \E isbn \in IsbnArgs, title \in TitleArgs, author \in AuthorArgs,
             year \in YearArgs, category \in CategoryArgs :
             addBookWithCategory(isbn, title, author, year, category)
    \/ AddCounted /\ \E isbn \in IsbnArgs, userId \in UserArgs : borrowBook(isbn, userId)
    \/ \E jsonData \in JsonInputs \cup MalformedInputs : importFromJSON(jsonData)

SpecImport == Init /\ [][NextImport]_vars

\* getPerformanceMetrics and optimizePerformance, at clock readings around
\* the interval and the retention window
MetricsClockSteps == {1, OptimizationInterval, RetentionWindow}

NextMetrics ==
    \/ /\ performanceMetrics.operations < MaxMetricsOps
       /\ \E title \in TitleArgs, author \in AuthorArgs, year \in YearArgs :
             addBook(Str("k1"), title, author, year)
    \/ /\ performanceMetrics.operations < MaxMetricsOps
       /\ \E userId \in UserArgs : borrowBook(Str("k1"), userId)
    \/ /\ performanceMetrics.operations < MaxMetricsOps
       /\ \E userId \in UserArgs : returnBook(Str("k1"), userId)
    \/ getPerformanceMetrics
    \/ optimizePerformance
    \/ ticks < MaxMetricsTicks /\ \E d \in MetricsClockSteps : Tick(d)

SpecMetrics == Init /\ [][NextMetrics]_vars

\* searchBooks, in libraries of up to MaxSearchBooks of three books that
\* addBook has stored
SearchCatalogue ==
    {Book(<<"a", "1">>, <<"A", "b">>, <<"b">>, StartYear),
     Book(<<"B", "2">>, <<"b", "a">>, <<"A">>, MinYear + 99),
     Book(<<"9">>, <<"a", "B", "a">>, <<"B", "b">>, StartYear - 6)}

SearchRegistries ==
    {bks \in UNION {[1..n -> SearchCatalogue] : n \in 0..MaxSearchBooks} :
        \A i, j \in 1..Len(bks) : bks[i] = bks[j] => i = j}

QueryArgs ==
    {Undefined} \cup
    {Str(q) : q \in {<<>>, <<"a">>, <<"A">>, <<"b">>, <<"a", "b">>, <<"A", "B">>, <<"B", "a">>,
                     <<"b", "A">>, <<"2">>, <<"2", "0">>, <<"9", "9">>, <<"b", "2">>,
                     <<"b", "b", "a">>}}

InitSearch ==
    \E bks \in SearchRegistries :
        /\ books = [i \in 1..Len(bks) |-> [key |-> bks[i].isbn, value |-> bks[i]]]
        /\ borrowHistory = <<>>
        /\ categories = <<>>
        /\ now = 0
        /\ ticks = 0
        /\ performanceMetrics = [startTime |-> 0, operations |-> Len(bks),
                                 lastOptimization |-> 0]
        /\ last = NoCall
        /\ lending = [k \in Isbns |-> [lastOk |-> "none", imported |-> FALSE,
                                        deleted |-> FALSE]]
        /\ requests = <<>>

NextSearch ==
    /\ performanceMetrics.operations < MaxSearchBooks + MaxSearchOps
    /\ \E query \in QueryArgs : searchBooks(query)

SpecSearch == InitSearch /\ [][NextSearch]_vars

\* getBooksByCategory, for the labels in use and one that is not, in
\* libraries that addBookWithCategory, deleteBook and imports (whole ones and
\* ones that fail half way) vary
ByCategoryArgs == CategoryArgs \cup {Str("c3")}

CategoryCounted == performanceMetrics.operations < MaxCategoryOps

NextByCategory ==
    \/ /\ CategoryCounted
       /\ \E isbn \in IsbnArgs, title \in TitleArgs, author \in AuthorArgs,
             year \in YearArgs, category \in CategoryArgs :
             addBookWithCategory(isbn, title, author, year, category)
    \/ CategoryCounted /\ \E isbn \in IsbnArgs : deleteBook(isbn)
    \/ \E jsonData \in JsonInputs \cup MalformedInputs : importFromJSON(jsonData)
    \/ \E category \in ByCategoryArgs : getBooksByCategory(category)

SpecByCategory == Init /\ [][NextByCategory]_vars

\* addBook, borrowBook, returnBook and deleteBook alone: no import, no
\* compaction
LendingCounted == performanceMetrics.operations < MaxLendingOps

NextLending ==
    \/ /\ LendingCounted
       /\ \E isbn \in IsbnArgs, title \in TitleArgs, author \in AuthorArgs, year \in YearArgs :
             addBook(isbn, title, author, year)
    \/ LendingCounted /\ \E isbn \in IsbnArgs, userId \in UserArgs : borrowBook(isbn, userId)
    \/ LendingCounted /\ \E isbn \in IsbnArgs, userId \in UserArgs : returnBook(isbn, userId)
    \/ LendingCounted /\ \E isbn \in IsbnArgs : deleteBook(isbn)

SpecLending == Init /\ [][NextLending]_vars

\* the borrow route under requests that are in flight together, on a
\* library that addBook fills
NextHttp ==
    \/ /\ performanceMetrics.operations < MaxHttpAdds
       /\ \E isbn \in IsbnArgs, title \in TitleArgs, author \in AuthorArgs, year \in YearArgs :
             addBook(isbn, title, author, year)
    \/ /\ Len(requests) < MaxRequests
       /\ \E isbn \in IsbnArgs, userId \in UserArgs : ReceiveBorrow(isbn, userId)
    \/ \E r \in 1..Len(requests) : PostBorrow(r)

SpecHttp == Init /\ [][NextHttp]_vars

\* the calls that keep a book in the registry, on books whose texts are
\* sequences of characters, as searchBooks reads them
FrameIsbns == {<<"a", "1">>, <<"B", "2">>}
FrameIsbnArgs == {Str(k) : k \in FrameIsbns}
FrameTitleArgs == {Str(<<"A", "b">>), Str(<<"b", "a">>)}
FrameAuthorArgs == {Str(<<"B">>)}
FrameQueryArgs == {Undefined, Str(<<"a">>), Str(<<"B">>), Str(<<"2", "0">>)}

InitFrame ==
    /\ books = <<>>
    /\ borrowHistory = <<>>
    /\ categories = <<>>
    /\ now = 0
    /\ ticks = 0
    /\ performanceMetrics = [startTime |-> 0, operations |-> 0, lastOptimization |-> 0]
    /\ last = NoCall
    /\ lending = [k \in FrameIsbns |-> [lastOk |-> "none", imported |-> FALSE,
                                         deleted |-> FALSE]]
    /\ requests = <<>>

FrameCounted == performanceMetrics.operations < MaxFrameOps

NextFrame ==
    \/ /\ FrameCounted
       /\ \E isbn \in FrameIsbnArgs, title \in FrameTitleArgs, author \in FrameAuthorArgs,
             year \in YearArgs :
             addBook(isbn, title, author, year)
    \/ /\ FrameCounted
       /\ \E isbn \in FrameIsbnArgs, title \in FrameTitleArgs, author \in FrameAuthorArgs,
             year \in YearArgs :
             addBookWithCategory(isbn, title, author, year, Str("c1"))
    \/ FrameCounted /\ \E isbn \in FrameIsbnArgs, userId \in UserArgs : borrowBook(isbn, userId)
    \/ FrameCounted /\ \E isbn \in FrameIsbnArgs, userId \in UserArgs : returnBook(isbn, userId)
    \/ FrameCounted /\ \E query \in FrameQueryArgs : searchBooks(query)
    \/ FrameCounted /\ getAvailableBooks
    \/ optimizePerformance
    \/ ticks < MaxTicks /\ \E d \in ClockSteps : Tick(d)

SpecFrame == InitFrame /\ [][NextFrame]_vars

\* getBorrowingStats in libraries in which books are lent, deleted and added
\* again
DeleteCounted == performanceMetrics.operations < MaxDeleteOps

NextDelete ==
    \/ /\ DeleteCounted
       /\ \E isbn \in IsbnArgs, title \in TitleArgs, author \in AuthorArgs, year \in YearArgs :
             addBook(isbn, title, author, year)
    \/ DeleteCounted /\ \E isbn \in IsbnArgs, userId \in UserArgs : borrowBook(isbn, userId)
    \/ DeleteCounted /\ \E isbn \in IsbnArgs, userId \in UserArgs : returnBook(isbn, userId)
    \/ DeleteCounted /\ \E isbn \in IsbnArgs : deleteBook(isbn)
    \/ getBorrowingStats

SpecDelete == Init /\ [][NextDelete]_vars

\* optimizePerformance and getBorrowingStats in libraries whose logs hold
\* events that an import has loaded beside events that borrowBook and
\* returnBook record, at clock readings around the interval
ImportedCounted == performanceMetrics.operations < MaxImportedOps

NextImported ==
    \/ \E jsonData \in JsonInputs : importFromJSON(jsonData)
    \/ ImportedCounted /\ \E isbn \in IsbnArgs, userId \in UserArgs : borrowBook(isbn, userId)
    \/ ImportedCounted /\ \E isbn \in IsbnArgs, userId \in UserArgs : returnBook(isbn, userId)
    \/ optimizePerformance
    \/ getBorrowingStats
    \/ ticks < MaxImportedTicks /\ \E d \in MetricsClockSteps : Tick(d)

SpecImported == Init /\ [][NextImported]_vars

\* getAvailableBooks and getBorrowingStats, in libraries that lending,
\* deletes, imports, the clock and compaction vary
StatCounted == performanceMetrics.operations < MaxStatOps

NextStats ==
    \/ /\ StatCounted
       /\ \E isbn \in IsbnArgs, title \in TitleArgs, author \in AuthorArgs,
             year \in YearArgs, category \in CategoryArgs :
             addBookWithCategory(isbn, title, author, year, category)
    \/ StatCounted /\ \E isbn \in IsbnArgs, userId \in UserArgs : borrowBook(isbn, userId)
    \/ StatCounted /\ \E isbn \in IsbnArgs, userId \in UserArgs : returnBook(isbn, userId)
    \/ StatCounted /\ \E isbn \in IsbnArgs : deleteBook(isbn)
    \/ StatCounted /\ getAvailableBooks
    \/ getBorrowingStats
    \/ \E jsonData \in JsonInputs : importFromJSON(jsonData)
    \/ optimizePerformance
    \/ ticks < MaxTicks /\ \E d \in ClockSteps : Tick(d)

SpecStats == Init /\ [][NextStats]_vars

\* the rankings of libraries of up to MaxTopBooks books: the state that
\* new Library(), then for each book addBook and one or two borrowBook and
\* returnBook by "u1", all at clock reading 0, leave; the ranking is asked
\* for at once or a year later
BorrowCounts == {1, 2}

\* the registry after addBook of the keys "1" .. n
RegistryOf(n) ==
    [i \in 1..n |->
        [key |-> ToString(i),
         value |-> Book(ToString(i), "T", "A", StartYear)]]

\* the events of c loans of one book, each returned
LoansOf(isbn, c) ==
    [j \in 1..(2 * c) |-> Event(isbn, IF j % 2 = 1 THEN "borrow" ELSE "return", 0)]

RECURSIVE LogOf(_, _)
LogOf(n, counts) ==
    IF n = 0 THEN <<>> ELSE LogOf(n - 1, counts) \o LoansOf(ToString(n), counts[n])

RECURSIVE SumOf(_, _)
SumOf(counts, n) == IF n = 0 THEN 0 ELSE counts[n] + SumOf(counts, n - 1)

InitTop ==
    \E n \in 0..MaxTopBooks : \E counts \in [1..n -> BorrowCounts] :
        /\ books = RegistryOf(n)
        /\ borrowHistory = IF n = 0 THEN <<>>
                           ELSE <<[key |-> "u1", value |-> LogOf(n, counts)]>>
        /\ categories = <<>>
        /\ now \in {0} \cup ClockSteps
        /\ ticks = 0
        /\ performanceMetrics = [startTime |-> 0, operations |-> n + 2 * SumOf(counts, n),
                                 lastOptimization |-> 0]
        /\ last = NoCall
        /\ lending = [k \in Isbns |-> [lastOk |-> "none", imported |-> FALSE,
                                        deleted |-> FALSE]]
        /\ requests = <<>>

NextTop == GetAnalytics

SpecTop == InitTop /\ [][NextTop]_vars

-----------------------------------------------------------------------------
(* Properties *)

\* the actor whose log a call with argument userId uses
ActorOf(userId) == IF userId.t = "undefined" THEN "anonymous" ELSE userId.v

\* log2 is log1 with one event {isbn, action} appended
AppendsEvent(log1, log2, isbn, action) ==
    /\ Len(log2) = Len(log1) + 1
    /\ SubSeq(log2, 1, Len(log1)) = log1
    /\ log2[Len(log2)].isbn = isbn
    /\ log2[Len(log2)].action = action

\* every actor other than user has the same log, or equally none, in both stores
OtherLogsSame(hist1, hist2, user) ==
    \A u \in (MapKeys(hist1) \cup MapKeys(hist2)) \ {user} :
        /\ MapHas(hist1, u) /\ MapHas(hist2, u)
        /\ MapGet(hist1, u) = MapGet(hist2, u)

\* the registry bks2 is bks1 with the availability of isbn set to flag
OnlyFlagSet(bks1, bks2, isbn, flag) ==
    /\ Len(bks2) = Len(bks1)
    /\ \A i \in 1..Len(bks1) :
          /\ bks2[i].key = bks1[i].key
          /\ bks2[i].value =
                IF bks1[i].key = isbn
                THEN [bks1[i].value EXCEPT !.isAvailable = flag]
                ELSE bks1[i].value

\* C1 (as amended): while no importFromJSON came after the last successful
\* borrow or return of key k, a borrowBook(k) that follows a successful borrow
\* fails with 'Book is not available', a borrowBook(k) that follows a
\* successful return succeeds unless k was deleted since, and a successful
\* returnBook(k) follows a successful borrow: successful borrows and returns of
\* k alternate, starting with a borrow.
C1_Alternation ==
    [][\A k \in Isbns :
        (last'.isbn = Str(k) /\ ~lending[k].imported) =>
            /\ (last'.op = "borrowBook" /\ lending[k].lastOk = "borrow")
                  => last'.error = "Book is not available"
            /\ (last'.op = "borrowBook" /\ lending[k].lastOk = "return"
                  /\ ~lending[k].deleted) => last'.error = "none"
            /\ (last'.op = "returnBook" /\ last'.error = "none")
                  => lending[k].lastOk = "borrow"]_vars

\* C1 as stated: over every sequence of operations, a borrowBook(k) after a
\* successful borrow with no successful return in between fails with 'Book is
\* not available', and one after a successful borrow and return succeeds.
C1_AnySequence ==
    [][\A k \in Isbns :
        (last'.op = "borrowBook" /\ last'.isbn = Str(k)) =>
            /\ lending[k].lastOk = "borrow" => last'.error = "Book is not available"
            /\ lending[k].lastOk = "return" => last'.error = "none"]_vars

\* C1 witness: a borrow, a return and a second borrow of one key by one actor
\* all succeeded, with no import in between
C1_Witness ==
    /\ last.op = "borrowBook" /\ last.error = "none"
    /\ ~lending[last.isbn.v].imported
    /\ \E i \in 1..Len(borrowHistory) :
          LET log == borrowHistory[i].value
          IN  /\ Len(log) = 3
              /\ \A j \in 1..3 : log[j].isbn = last.isbn.v /\ log[j].timestamp.isDate
              /\ log[1].action = "borrow" /\ log[2].action = "return"
              /\ log[3].action = "borrow"

\* C2: a successful borrowBook(k, actor) sets k's availability to false,
\* appends one 'borrow' event for k to the log of the actor ('anonymous' when
\* none is given), creating the log if needed, and leaves every other book,
\* every other log and the category index as they were.
C2_BorrowEffect ==
    [][(last'.op = "borrowBook" /\ last'.error = "none") =>
        LET k == last'.isbn.v
            actor == ActorOf(last'.userId)
        IN  /\ MapHas(books, k)
            /\ OnlyFlagSet(books, books', k, FALSE)
            /\ MapHas(borrowHistory', actor)
            /\ AppendsEvent(getUserHistory(borrowHistory, actor),
                            MapGet(borrowHistory', actor), k, "borrow")
            /\ OtherLogsSame(borrowHistory, borrowHistory', actor)
            /\ categories' = categories]_vars

\* C2 witness: a borrow without actor succeeded and created the log of
\* 'anonymous' beside another actor's log, with two books and a category
C2_Witness ==
    /\ last.op = "borrowBook" /\ last.error = "none" /\ last.userId = Undefined
    /\ Len(books) = 2 /\ Len(categories) > 0
    /\ Len(borrowHistory) = 2
    /\ Len(getUserHistory(borrowHistory, "anonymous")) = 1

\* C3 as stated: every successful returnBook(k, actor) appends one 'return'
\* event for k to the actor's log, creating the log if the actor has none.
C3_ReturnAppends ==
    [][(last'.op = "returnBook" /\ last'.error = "none") =>
        LET actor == ActorOf(last'.userId)
        IN  /\ MapHas(borrowHistory', actor)
            /\ AppendsEvent(getUserHistory(borrowHistory, actor),
                            MapGet(borrowHistory', actor), last'.isbn.v, "return")]_vars

\* C4: borrowBook and returnBook of an absent key fail with 'Book not found',
\* returnBook of an available book fails with 'Book is already in library', and
\* these failures leave registry, category index and history unchanged.
C4_LendingFailures ==
    [][(last'.op \in {"borrowBook", "returnBook"}) =>
        LET k == last'.isbn.v
        IN  /\ ~MapHas(books, k) =>
                  /\ last'.error = "Book not found"
                  /\ UNCHANGED <<books, categories, borrowHistory>>
            /\ (last'.op = "returnBook" /\ MapHas(books, k) /\ MapGet(books, k).isAvailable) =>
                  /\ last'.error = "Book is already in library"
                  /\ UNCHANGED <<books, categories, borrowHistory>>]_vars

\* C4 witness: a returnBook of an available book failed, for an actor who has a log
C4_Witness ==
    /\ last.op = "returnBook" /\ last.error = "Book is already in library"
    /\ MapHas(borrowHistory, ActorOf(last.userId))
    /\ Len(categories) > 0

\* C6: a successful deleteBook(k) returns true, removes k from the registry
\* and from every category set, and keeps every other book, every other member
\* of every set, every category label and the history.
C6_DeleteEffect ==
    [][(last'.op = "deleteBook" /\ last'.error = "none") =>
        LET k == last'.isbn.v
        IN  /\ last'.ret = Bool(TRUE)
            /\ MapHas(books, k) /\ ~MapHas(books', k)
            /\ books' = SelectSeq(books, LAMBDA e : e.key # k)
            /\ Len(categories') = Len(categories)
            /\ \A i \in 1..Len(categories) :
                  /\ categories'[i].key = categories[i].key
                  /\ categories'[i].value.items =
                        SelectSeq(categories[i].value.items, LAMBDA x : x # k)
            /\ borrowHistory' = borrowHistory]_vars

\* C6 witness: a delete succeeded and left one category empty beside a
\* category that still has a member
C6_Witness ==
    /\ last.op = "deleteBook" /\ last.error = "none"
    /\ \E i, j \in 1..Len(categories) :
          /\ categories[i].value.items = <<>> /\ categories[i].value.isSet
          /\ categories[j].value.items # <<>>

\* C7: every key in a category set is a key of the registry.
C7_CategoryKeysInRegistry ==
    \A i \in 1..Len(categories) :
        \A j \in 1..Len(categories[i].value.items) :
            MapHas(books, categories[i].value.items[j])

\* C7 witness: a delete succeeded while another book is still in a category
C7_Witness ==
    /\ last.op = "deleteBook" /\ last.error = "none"
    /\ \E i \in 1..Len(categories) : categories[i].value.items # <<>>

\* C5 as stated: deleteBook(k) fails with 'Book not found' when k is absent
\* and with 'Cannot delete borrowed book' when k is on loan, changing nothing;
\* on a present, available (returned) book it succeeds and removes k, so that
\* only available books are ever deleted.
C5_DeleteContract ==
    [][(last'.op = "deleteBook") =>
        LET k == last'.isbn.v
        IN  /\ ~MapHas(books, k) =>
                  /\ last'.error = "Book not found"
                  /\ UNCHANGED <<books, categories, borrowHistory>>
            /\ (MapHas(books, k) /\ ~MapGet(books, k).isAvailable) =>
                  /\ last'.error = "Cannot delete borrowed book"
                  /\ UNCHANGED <<books, categories, borrowHistory>>
            /\ (MapHas(books, k) /\ MapGet(books, k).isAvailable) =>
                  /\ last'.error = "none"
                  /\ ~MapHas(books', k)]_vars

\* an argument that is empty or absent
EmptyOrAbsent(v) == v.t = "undefined" \/ (v.t = "string" /\ v.v = "")

\* C8: addBook with an empty or absent key, title, author or year fails with
\* 'All book details are required' and leaves the registry as it was.
C8_RequiredDetails ==
    [][(/\ last'.op = "addBook"
        /\ \/ EmptyOrAbsent(last'.isbn) \/ EmptyOrAbsent(last'.title)
           \/ EmptyOrAbsent(last'.author) \/ EmptyOrAbsent(last'.year)) =>
        /\ last'.error = "All book details are required"
        /\ books' = books]_vars

\* C8 witness: an addBook whose only defect is the absent author failed in a
\* library that holds a book
C8_Witness ==
    /\ last.op = "addBook" /\ last.error = "All book details are required"
    /\ last.author = Undefined
    /\ ~EmptyOrAbsent(last.isbn) /\ ~EmptyOrAbsent(last.title) /\ last.year = Num(MinYear)
    /\ Len(books) > 0

\* the title, author and year of the last call pass lines 17-24 at clock t
ValidDetails(call, t) ==
    /\ ~EmptyOrAbsent(call.title) /\ ~EmptyOrAbsent(call.author)
    /\ call.year.t = "number" /\ call.year.v # 0
    /\ call.year.v >= MinYear /\ call.year.v <= CurrentYear(t)

\* C9 (as amended): addBook with a key already in the registry always fails and
\* leaves the registry, the stored record included, as it was; the error is
\* 'Book with this ISBN already exists' when title, author and year are valid,
\* otherwise the error of the earlier validation; no key is ever present twice.
C9_DuplicateKey ==
    [][/\ (/\ last'.op = "addBook" /\ last'.isbn.t = "string"
           /\ MapHas(books, last'.isbn.v)) =>
             /\ last'.error # "none"
             /\ books' = books
             /\ ValidDetails(last', now) => last'.error = "Book with this ISBN already exists"
       /\ \A i, j \in 1..Len(books') : books'[i].key = books'[j].key => i = j]_vars

\* C9 as stated: addBook with a key already in the registry fails with 'Book
\* with this ISBN already exists' whatever the other arguments are.
C9_AlwaysConflict ==
    [][(/\ last'.op = "addBook" /\ last'.isbn.t = "string"
        /\ MapHas(books, last'.isbn.v)) =>
          /\ last'.error = "Book with this ISBN already exists"
          /\ books' = books]_vars

\* C9 witness: an addBook with another title for the key of a book on loan
\* failed with the conflict error, and the record kept its title and flag
C9_Witness ==
    /\ last.op = "addBook" /\ last.error = "Book with this ISBN already exists"
    /\ MapHas(books, last.isbn.v)
    /\ MapGet(books, last.isbn.v).title # last.title.v
    /\ ~MapGet(books, last.isbn.v).isAvailable

\* C10 as stated: addBook with non-empty key, title and author and a new key
\* fails with 'Invalid publication year' for every integer year outside
\* [1900, currentYear] and succeeds for the years 1900 and currentYear.
C10_YearRange ==
    [][(/\ last'.op = "addBook"
        /\ ~EmptyOrAbsent(last'.isbn) /\ ~EmptyOrAbsent(last'.title)
        /\ ~EmptyOrAbsent(last'.author) /\ last'.year.t = "number"
        /\ ~MapHas(books, last'.isbn.v)) =>
          /\ (last'.year.v < MinYear \/ last'.year.v > CurrentYear(now))
                => last'.error = "Invalid publication year"
          /\ last'.year.v \in {MinYear, CurrentYear(now)} => last'.error = "none"]_vars

-----------------------------------------------------------------------------
(* C11: getAvailableBooks *)

\* the positions of the registry whose book is available
AvailableAt(bks) == {i \in 1..Len(bks) : bks[i].value.isAvailable}

\* the j-th smallest member of a set of positions
NthOf(S, j) == CHOOSE i \in S : Cardinality({m \in S : m <= i}) = j

HasIsbn(list, k) == \E j \in 1..Len(list) : list[j].isbn = k

\* C11: getAvailableBooks returns the books of the registry whose flag is true,
\* each once and in insertion order, and changes no store; after a successful
\* add the new book is in that list, after a successful borrow the book is not,
\* and after a successful return it is again.
C11_AvailableBooks ==
    [][/\ (last'.op = "getAvailableBooks") =>
            LET S == AvailableAt(books)
            IN  /\ Len(last'.ret) = Cardinality(S)
                /\ \A j \in 1..Len(last'.ret) : last'.ret[j] = books[NthOf(S, j)].value
                /\ UNCHANGED <<books, categories, borrowHistory>>
       /\ (last'.op \in {"addBook", "addBookWithCategory", "returnBook"} /\ last'.error = "none")
            => HasIsbn(GetAvailableBooksResult(books'), last'.isbn.v)
       /\ (last'.op = "borrowBook" /\ last'.error = "none")
            => ~HasIsbn(GetAvailableBooksResult(books'), last'.isbn.v)]_vars

\* the list is asked for while the first of two books is on loan
C11_Witness ==
    /\ last.op = "getAvailableBooks"
    /\ Len(books) = 2
    /\ ~books[1].value.isAvailable
    /\ Len(last.ret) = 1
    /\ last.ret[1].isbn = books[2].key

-----------------------------------------------------------------------------
(* C12: addBookWithCategory *)

AddBookErrors ==
    {"All book details are required", "Invalid publication year",
     "Book with this ISBN already exists"}

\* the keys of the set stored under a label; none when the label is absent
MembersOf(cats, c) ==
    IF MapHas(cats, c)
    THEN {MapGet(cats, c).items[i] : i \in 1..Len(MapGet(cats, c).items)}
    ELSE {}

\* C12: an addBookWithCategory(k, ..., c) whose embedded addBook fails leaves
\* the category index unchanged; one whose embedded addBook succeeds leaves k
\* in the registry with its flag true and k a member of the set of c, and
\* changes the set of no other label.
C12_AddWithCategory ==
    [][(last'.op = "addBookWithCategory") =>
        IF last'.error \in AddBookErrors
        THEN categories' = categories
        ELSE LET k == last'.isbn.v
                 c == last'.category.v
             IN  /\ MapHas(books', k) /\ MapGet(books', k).isAvailable
                 /\ MapHas(categories', c)
                 /\ k \in MembersOf(categories', c)
                 /\ \A i \in 1..Len(categories) :
                        categories[i].key # c => categories'[i] = categories[i]]_vars

-----------------------------------------------------------------------------
(* C13: the snapshot round trip *)

\* importFromJSON(exportToJSON()) of the current state into a new Library
RoundTrip == ImportResult(<<>>, <<>>, <<>>, ExportResult(books, categories, borrowHistory))

\* an event without the type of its timestamp
Instant(e) == [isbn |-> e.isbn, action |-> e.action, time |-> e.timestamp.time]

\* C13: in every reachable state, importing the exported snapshot into a new
\* Library returns true and gives the same registry, the same labels each with
\* the same set of keys, and for each actor the same sequence of events.
C13_RoundTrip ==
    LET r == RoundTrip
    IN  /\ r.error = "none" /\ r.ret = Bool(TRUE)
        /\ r.books = books
        /\ Len(r.categories) = Len(categories)
        /\ \A i \in 1..Len(categories) :
              /\ r.categories[i].key = categories[i].key
              /\ MembersOf(r.categories, categories[i].key)
                    = MembersOf(categories, categories[i].key)
        /\ Len(r.borrowHistory) = Len(borrowHistory)
        /\ \A i \in 1..Len(borrowHistory) :
              /\ r.borrowHistory[i].key = borrowHistory[i].key
              /\ Len(r.borrowHistory[i].value) = Len(borrowHistory[i].value)
              /\ \A j \in 1..Len(borrowHistory[i].value) :
                    Instant(r.borrowHistory[i].value[j]) = Instant(borrowHistory[i].value[j])

-----------------------------------------------------------------------------
(* C14: importFromJSON replaces *)

\* the entries a JSON text holds under a name; none when the name is missing
EntriesOf(jsonData, name) ==
    IF jsonData.kinds[name] = "entries" THEN jsonData[name] ELSE <<>>

\* C14: after an importFromJSON that returns true, the registry, the category
\* index and the history hold exactly the entries of the text, whatever they
\* held before, and the performance metrics are unchanged.
C14_ImportReplaces ==
    [][(last'.op = "importFromJSON" /\ last'.error = "none") =>
        /\ last'.ret = Bool(TRUE)
        /\ books' = EntriesOf(last'.jsonData, "books")
        /\ categories' = EntriesOf(last'.jsonData, "categories")
        /\ borrowHistory' = EntriesOf(last'.jsonData, "borrowHistory")
        /\ performanceMetrics' = performanceMetrics]_vars

\* a snapshot without k2 is imported into a Library in which k2 was on loan
C14_Witness ==
    /\ last.op = "importFromJSON"
    /\ last.error = "none"
    /\ lending["k2"].lastOk = "borrow"
    /\ performanceMetrics.operations > 0
    /\ MapKeys(books) = {"k1"}
    /\ MapKeys(categories) = {"c1"}
    /\ MapKeys(borrowHistory) = {"u1"}

-----------------------------------------------------------------------------
(* C15: importFromJSON of a malformed text *)

\* C15: an importFromJSON of a text that is not JSON, or of JSON without the
\* three entry lists, fails with an error instead of returning true, and
\* leaves the registry, the category index and the history as they were.
C15_MalformedRejected ==
    [][(last'.op = "importFromJSON" /\ last'.jsonData \in MalformedInputs) =>
        /\ last'.error # "none"
        /\ last'.ret # Bool(TRUE)
        /\ UNCHANGED <<books, categories, borrowHistory>>]_vars

-----------------------------------------------------------------------------
(* C16 - C18: getBorrowingStats *)

\* the positions <<actor, event>> of the 'borrow' events of a history
BorrowsAt(hist) ==
    {p \in UNION {{<<i, j>> : j \in 1..Len(hist[i].value)} : i \in 1..Len(hist)} :
        hist[p[1]].value[p[2]].action = "borrow"}

\* those of one book key
BorrowsOf(hist, k) == {p \in BorrowsAt(hist) : hist[p[1]].value[p[2]].isbn = k}

RECURSIVE SumValues(_, _)
SumValues(m, n) == IF n = 0 THEN 0 ELSE m[n].value + SumValues(m, n - 1)

NoKeyTwice(m) == \A i, j \in 1..Len(m) : m[i].key = m[j].key => i = j

\* C16: getBorrowingStats().totalBorrows is the number of 'borrow' events of
\* all logs; popularBooks has one entry for each key with a 'borrow' event,
\* holding their number, and no entry for any other key; 'return' events add
\* nothing; the entries of popularBooks sum to totalBorrows.
C16_BorrowCounts ==
    [][(last'.op = "getBorrowingStats") =>
        LET stats == last'.ret
        IN  /\ stats.totalBorrows = Cardinality(BorrowsAt(borrowHistory))
            /\ NoKeyTwice(stats.popularBooks)
            /\ \A i \in 1..Len(stats.popularBooks) :
                  /\ stats.popularBooks[i].value > 0
                  /\ stats.popularBooks[i].value
                        = Cardinality(BorrowsOf(borrowHistory, stats.popularBooks[i].key))
            /\ \A p \in BorrowsAt(borrowHistory) :
                  MapHas(stats.popularBooks, borrowHistory[p[1]].value[p[2]].isbn)
            /\ SumValues(stats.popularBooks, Len(stats.popularBooks)) = stats.totalBorrows
            /\ UNCHANGED <<books, categories, borrowHistory, performanceMetrics>>]_vars

\* two books were borrowed, one of them returned
C16_Witness ==
    /\ last.op = "getBorrowingStats"
    /\ last.ret.totalBorrows = 2
    /\ Len(last.ret.popularBooks) = 2
    /\ \E i \in 1..Len(borrowHistory) : \E j \in 1..Len(borrowHistory[i].value) :
          borrowHistory[i].value[j].action = "return"

\* C17: getBorrowingStats().activeLoans is the number of books of the registry
\* whose flag is false; with the length of getAvailableBooks() it adds up to
\* the number of books; a compaction run leaves it as it was.
C17_ActiveLoans ==
    [][/\ (last'.op = "getBorrowingStats") =>
            /\ last'.ret.activeLoans
                  = Cardinality({i \in 1..Len(books) : ~books[i].value.isAvailable})
            /\ last'.ret.activeLoans + Len(GetAvailableBooksResult(books)) = Len(books)
       /\ (last'.op = "optimizePerformance") =>
            GetBorrowingStatsResult(books', borrowHistory').activeLoans
                = GetBorrowingStatsResult(books, borrowHistory).activeLoans]_vars

\* a book is on loan and a compaction run has dropped its borrow event
C17_Witness ==
    /\ last.op = "getBorrowingStats"
    /\ last.ret.activeLoans = 1
    /\ last.ret.totalBorrows = 0
    /\ performanceMetrics.lastOptimization > 0
    /\ Len(books) = 2

-----------------------------------------------------------------------------
(* C19, C20: getPopularityAnalytics *)

\* the keys with a 'borrow' event
Borrowed(hist) == {hist[p[1]].value[p[2]].isbn : p \in BorrowsAt(hist)}

\* k has more 'borrow' events than every other key
MostBorrowed(hist, k) ==
    \A other \in Borrowed(hist) \ {k} :
        Cardinality(BorrowsOf(hist, k)) > Cardinality(BorrowsOf(hist, other))

Least(a, b) == IF a < b THEN a ELSE b

\* C19: topBooks of getPopularityAnalytics() lists books with their numbers
\* of 'borrow' events in descending order of that number: the ten most
\* borrowed ones, or all when fewer were borrowed; a book borrowed more often
\* than every other one is first.
C19_TopBooks ==
    [][(last'.op = "GET /analytics") =>
        LET top == last'.ret.body.topBooks
        IN  /\ Len(top) = Least(TopBooksLimit, Cardinality(Borrowed(borrowHistory)))
            /\ \A i, j \in 1..Len(top) :
                  /\ i < j => top[i].borrowCount >= top[j].borrowCount
                  /\ top[i].isbn = top[j].isbn => i = j
            /\ \A i \in 1..Len(top) :
                  top[i].borrowCount = Cardinality(BorrowsOf(borrowHistory, top[i].isbn))
            /\ \A k \in Borrowed(borrowHistory) :
                  \/ \E i \in 1..Len(top) : top[i].isbn = k
                  \/ Cardinality(BorrowsOf(borrowHistory, k)) <= top[Len(top)].borrowCount
            /\ \A k \in Borrowed(borrowHistory) :
                  MostBorrowed(borrowHistory, k) => top[1].isbn = k]_vars

\* eleven books were borrowed, the last one more often than the others
C19_Witness ==
    /\ last.op = "GET /analytics"
    /\ Cardinality(Borrowed(borrowHistory)) > TopBooksLimit
    /\ Len(last.ret.body.topBooks) = TopBooksLimit
    /\ MostBorrowed(borrowHistory, books[Len(books)].key)
    /\ last.ret.body.topBooks[1].isbn = books[Len(books)].key
    /\ last.ret.body.topBooks[1].borrowCount = 2

\* the 'borrow' events of the most recent 30 days
RecentBorrows(hist, t) ==
    {p \in BorrowsAt(hist) :
        DayOf(t) - DayOf(hist[p[1]].value[p[2]].timestamp.time) <= RecentDays}

\* C20: recommendations of getPopularityAnalytics() lists the five books of
\* highest popularity score, or all borrowed books when they are fewer, in
\* descending order of the score 0.4 * borrows of the book + 0.6 * borrows of
\* the last 30 days (in tenths: 4 and 6); it is not empty once a borrow is
\* recorded and starts with the book borrowed more often than every other
\* one; GET /analytics answers with status 200.
C20_Recommendations ==
    [][(last'.op = "GET /analytics") =>
        LET recs == last'.ret.body.recommendations
            recent == Cardinality(RecentBorrows(borrowHistory, now))
        IN  /\ last'.ret.status = 200
            /\ Len(recs) = Least(RecommendationLimit, Cardinality(Borrowed(borrowHistory)))
            /\ (BorrowsAt(borrowHistory) # {}) => Len(recs) > 0
            /\ \A i, j \in 1..Len(recs) :
                  /\ i < j => recs[i].score >= recs[j].score
                  /\ recs[i].isbn = recs[j].isbn => i = j
            /\ \A i \in 1..Len(recs) :
                  recs[i].score
                      = 4 * Cardinality(BorrowsOf(borrowHistory, recs[i].isbn)) + 6 * recent
            /\ \A k \in Borrowed(borrowHistory) :
                  \/ \E i \in 1..Len(recs) : recs[i].isbn = k
                  \/ 4 * Cardinality(BorrowsOf(borrowHistory, k)) + 6 * recent
                        <= recs[Len(recs)].score
            /\ \A k \in Borrowed(borrowHistory) :
                  MostBorrowed(borrowHistory, k) => recs[1].isbn = k]_vars

\* six books were borrowed more than 30 days ago, the third one twice
C20_Witness ==
    /\ last.op = "GET /analytics"
    /\ last.ret.status = 200
    /\ Len(books) = 6
    /\ RecentBorrows(borrowHistory, now) = {}
    /\ Len(last.ret.body.recommendations) = RecommendationLimit
    /\ last.ret.body.recommendations[1] = [isbn |-> "3", score |-> 8]
    /\ last.ret.body.recommendations[2].score = 4

-----------------------------------------------------------------------------
(* C21: the average loan duration *)

\* the positions <<actor, event>> of the returns that close an open borrow:
\* the 'return' events that directly follow a 'borrow' event in their log
MatchedReturns(hist) ==
    {p \in UNION {{<<i, j>> : j \in 2..Len(hist[i].value)} : i \in 1..Len(hist)} :
        /\ hist[p[1]].value[p[2]].action = "return"
        /\ hist[p[1]].value[p[2] - 1].action = "borrow"}

LoanDuration(hist, p) ==
    hist[p[1]].value[p[2]].timestamp.time - hist[p[1]].value[p[2] - 1].timestamp.time

RECURSIVE SumOfDurations(_, _)
SumOfDurations(hist, S) ==
    IF S = {} THEN 0
    ELSE LET p == CHOOSE q \in S : TRUE
         IN  LoanDuration(hist, p) + SumOfDurations(hist, S \ {p})

IsZero(q) == q.num = 0

-----------------------------------------------------------------------------
(* C22, C23: optimizePerformance *)

\* C22: optimizePerformance changes the history and lastOptimization only
\* when more than the interval has passed since lastOptimization; it then
\* sets lastOptimization to the clock reading, whether or not an event is
\* dropped; otherwise both stay as they are. No step decreases
\* lastOptimization, and a run is more than the interval after the one before.
C22_CompactionGate ==
    [][/\ (last'.op = "optimizePerformance") =>
            IF now - performanceMetrics.lastOptimization > OptimizationInterval
            THEN performanceMetrics'.lastOptimization = now
            ELSE /\ borrowHistory' = borrowHistory
                 /\ performanceMetrics'.lastOptimization = performanceMetrics.lastOptimization
       /\ performanceMetrics'.lastOptimization >= performanceMetrics.lastOptimization
       /\ (performanceMetrics'.lastOptimization # performanceMetrics.lastOptimization) =>
            /\ last'.op = "optimizePerformance"
            /\ performanceMetrics'.lastOptimization - performanceMetrics.lastOptimization
                  > OptimizationInterval]_vars

\* a call exactly one interval after the last run does nothing
C22_Witness ==
    /\ last.op = "optimizePerformance"
    /\ performanceMetrics.lastOptimization > 0
    /\ now - performanceMetrics.lastOptimization = OptimizationInterval
    /\ borrowHistory # <<>>

\* C23: a compaction run at clock reading now leaves of every log exactly the
\* events that are not older than the retention window, in their order and
\* unaltered: an event is dropped if and only if now - timestamp is greater
\* than the window.
C23_RetentionWindow ==
    [][(last'.op = "optimizePerformance"
            /\ now - performanceMetrics.lastOptimization > OptimizationInterval) =>
        /\ Len(borrowHistory') = Len(borrowHistory)
        /\ \A i \in 1..Len(borrowHistory) :
              /\ borrowHistory'[i].key = borrowHistory[i].key
              /\ borrowHistory'[i].value
                    = SelectSeq(borrowHistory[i].value,
                                LAMBDA e : ~(now - e.timestamp.time > RetentionWindow))]_vars

-----------------------------------------------------------------------------
(* C24: the operation counter and the mutating operations *)

\* C24: every call of addBook, addBookWithCategory, deleteBook, borrowBook,
\* returnBook and importFromJSON, and every compaction run of
\* optimizePerformance, raises performanceMetrics.operations.
C24_MutationsCounted ==
    [][(\/ last'.op \in {"addBook", "addBookWithCategory", "deleteBook", "borrowBook",
                         "returnBook", "importFromJSON"}
        \/ /\ last'.op = "optimizePerformance"
           /\ ShouldOptimize(now, performanceMetrics.lastOptimization))
        => performanceMetrics'.operations > performanceMetrics.operations]_vars

-----------------------------------------------------------------------------
(* C25: getPerformanceMetrics *)

\* C25: getPerformanceMetrics reports an uptime that is not negative; when
\* the uptime is 0 operationsPerSecond is zero or undefined, whatever the
\* counter; otherwise it is operations / (uptime in seconds).
C25_OperationsPerSecond ==
    [][(last'.op = "getPerformanceMetrics") =>
        LET m == last'.ret
        IN  /\ m.uptime >= 0
            /\ m.uptime = now - performanceMetrics.startTime
            /\ IF m.uptime = 0
               THEN \/ m.operationsPerSecond = Undefined
                    \/ /\ m.operationsPerSecond.t = "number"
                       /\ m.operationsPerSecond.num = 0
               ELSE /\ m.operationsPerSecond.t = "number"
                    /\ m.operationsPerSecond.num * m.uptime
                          = performanceMetrics.operations * m.operationsPerSecond.den]_vars

-----------------------------------------------------------------------------
(* C26: searchBooks *)

\* two characters that are one letter in either case, or the same character
SameLetter(c, d) == c = d \/ {c, d} \in {{"a", "A"}, {"b", "B"}}

\* a text of which q is a substring, whatever the case of the letters
Holds(text, q) ==
    \E i \in 0..(Len(text) - Len(q)) : \A j \in 1..Len(q) : SameLetter(text[i + j], q[j])

\* the decimal form of a year of four digits
FourDigits(n) ==
    <<DigitOf(n \div 1000), DigitOf((n \div 100) % 10), DigitOf((n \div 10) % 10),
      DigitOf(n % 10)>>

Matches(book, q) ==
    \/ Holds(book.title, q)
    \/ Holds(book.author, q)
    \/ Holds(book.isbn, q)
    \/ Holds(FourDigits(book.publicationYear), q)

Recasing(q, r) == Len(q) = Len(r) /\ \A j \in 1..Len(q) : SameLetter(q[j], r[j])

\* C26: searchBooks returns no book for an empty or undefined query; for any
\* other query it returns exactly the books of the registry of which the
\* query is a substring, whatever the case, of the title, the author, the key
\* or the decimal form of the year, each once and in the order of the
\* registry; a query spelled in another case gives the same result; no book,
\* category or log changes.
C26_SearchBooks ==
    [][(last'.op = "searchBooks") =>
        LET query == last'.title
            result == last'.ret
        IN  /\ UNCHANGED <<books, categories, borrowHistory>>
            /\ IF query = Undefined \/ query.v = <<>>
               THEN result = <<>>
               ELSE LET S == {i \in 1..Len(books) : Matches(books[i].value, query.v)}
                    IN  /\ Len(result) = Cardinality(S)
                        /\ \A j \in 1..Len(result) : result[j] = books[NthOf(S, j)].value
                        /\ \A other \in QueryArgs \ {Undefined} :
                              Recasing(query.v, other.v)
                                  => SearchBooksResult(books, other) = result]_vars

\* a query in capitals finds one of two books by a title in small letters
C26_Witness ==
    /\ last.op = "searchBooks"
    /\ last.title = Str(<<"B", "a">>)
    /\ Len(books) = 2
    /\ Len(last.ret) = 1
    /\ last.ret[1].title = <<"b", "a">>

-----------------------------------------------------------------------------
(* C27: getBooksByCategory *)

\* the keys that the label holds, in their order
KeysOfLabel(label) ==
    IF \E i \in 1..Len(categories) : categories[i].key = label
    THEN (CHOOSE e \in {categories[i] : i \in 1..Len(categories)} : e.key = label).value.items
    ELSE <<>>

InRegistry(k) == \E i \in 1..Len(books) : books[i].key = k

\* C27: getBooksByCategory returns the records of the registry for exactly
\* the keys of the set of the label that the registry holds, in the order of
\* the set and without the keys it does not hold; a label that is unknown
\* gives the empty sequence and no error; no category is created and nothing
\* of the state changes.
C27_BooksByCategory ==
    [][(last'.op = "getBooksByCategory") =>
        LET keys == KeysOfLabel(last'.category.v)
            S == {i \in 1..Len(keys) : InRegistry(keys[i])}
            result == last'.ret
        IN  /\ last'.error = "none"
            /\ Len(result) = Cardinality(S)
            /\ \A j \in 1..Len(result) :
                  \E i \in 1..Len(books) : /\ books[i].key = keys[NthOf(S, j)]
                                           /\ result[j] = books[i].value
            /\ (~\E i \in 1..Len(categories) : categories[i].key = last'.category.v)
                  => result = <<>>
            /\ UNCHANGED <<books, categories, borrowHistory, performanceMetrics>>]_vars

\* a label of two keys, of which the registry holds the second only
C27_Witness ==
    /\ last.op = "getBooksByCategory"
    /\ Len(KeysOfLabel(last.category.v)) = 2
    /\ ~InRegistry(KeysOfLabel(last.category.v)[1])
    /\ Len(last.ret) = 1
    /\ last.ret[1].isbn = KeysOfLabel(last.category.v)[2]

\* an unknown label is answered by the empty sequence while other labels hold books
C27_WitnessUnknown ==
    /\ last.op = "getBooksByCategory"
    /\ last.category = Str("c3")
    /\ last.ret = <<>>
    /\ Len(categories) > 0
    /\ Len(books) > 0

-----------------------------------------------------------------------------
(* C28: the logs only grow *)

\* the actors of the calls, and one that never calls
Actors == {"anonymous", "u1", "u2"}

\* a step that is an import, or a call of optimizePerformance that ran
ReplacesLogs ==
    \/ last'.op = "importFromJSON"
    \/ /\ last'.op = "optimizePerformance"
       /\ performanceMetrics'.lastOptimization # performanceMetrics.lastOptimization

\* C28: over a step that is neither an import nor a compaction run, the
\* history of every actor before the step is a prefix of its history after
\* the step; a history changes only by one event put at its end, by a
\* borrowBook or returnBook of that actor that succeeds, the event being the
\* one of that call; so the events stand in the order of the successful
\* calls, and an actor that never called has the empty history.
C28_AppendOnly ==
    [][~ReplacesLogs =>
        \A u \in Actors :
            LET before == getUserHistory(borrowHistory, u)
                after == getUserHistory(borrowHistory', u)
            IN  /\ Len(before) <= Len(after)
                /\ SubSeq(after, 1, Len(before)) = before
                /\ after # before =>
                      /\ last'.op \in {"borrowBook", "returnBook"}
                      /\ last'.error = "none"
                      /\ DefaultUser(last'.userId).v = u
                      /\ after = Append(before,
                                    Event(last'.isbn.v,
                                          IF last'.op = "borrowBook" THEN "borrow"
                                          ELSE "return", now))]_vars

\* "u1" borrowed a book after the anonymous actor did and then returned it:
\* the two events of "u1" stand in that order, and "u2" has no history
C28_Witness ==
    /\ last.op = "returnBook"
    /\ last.error = "none"
    /\ last.userId = Str("u1")
    /\ LET log == getUserHistory(borrowHistory, "u1")
       IN  /\ Len(log) = 2
           /\ log[1].action = "borrow"
           /\ log[2].action = "return"
           /\ log[1].timestamp.isDate /\ log[2].timestamp.isDate
    /\ Len(getUserHistory(borrowHistory, "anonymous")) = 1
    /\ getUserHistory(borrowHistory, "u2") = <<>>

-----------------------------------------------------------------------------
(* C29: the returns of a log and its borrows *)

\* the events of log up to position j that are of the action for the key
EventsUpTo(log, j, k, action) ==
    Cardinality({i \in 1..j : log[i].isbn = k /\ log[i].action = action})

\* every return of the log has a borrow of its key before it in the log that
\* no earlier return of the log has matched
ReturnsMatched(log) ==
    \A j \in 1..Len(log), k \in Isbns :
        EventsUpTo(log, j, k, "return") <= EventsUpTo(log, j, k, "borrow")

\* C29 as stated: in every state that addBook, borrowBook, returnBook and
\* deleteBook reach, every 'return' event of a log for a key is preceded in
\* that log by a 'borrow' event for the key that no earlier 'return' of the
\* log has matched.
C29_ReturnsMatchedPerLog ==
    \A e \in 1..Len(borrowHistory) : ReturnsMatched(borrowHistory[e].value)

\* the events of all logs that are of the action for the key
EventsOfAllLogs(k, action) ==
    SumOf([e \in 1..Len(borrowHistory) |->
              EventsUpTo(borrowHistory[e].value, Len(borrowHistory[e].value), k, action)],
          Len(borrowHistory))

OnLoanCount(k) ==
    IF \E i \in 1..Len(books) : books[i].key = k /\ ~books[i].value.isAvailable THEN 1 ELSE 0

\* C29 amended: in every state that addBook, borrowBook, returnBook and
\* deleteBook reach, for every key the 'return' events of all logs, and one
\* more while the book is on loan, are at most the 'borrow' events for the
\* key of all logs, and every log begins with a 'borrow' event; the log that
\* holds a 'return' need not be the log that holds the 'borrow' it answers.
C29_ReturnsMatchedOverLogs ==
    /\ \A k \in Isbns :
          EventsOfAllLogs(k, "return") + OnLoanCount(k) <= EventsOfAllLogs(k, "borrow")
    /\ \A e \in 1..Len(borrowHistory) :
          /\ Len(borrowHistory[e].value) > 0
          /\ borrowHistory[e].value[1].action = "borrow"

\* a log holds the return of a book that another actor had borrowed
C29_Witness ==
    /\ last.op = "returnBook"
    /\ last.error = "none"
    /\ ~ReturnsMatched(getUserHistory(borrowHistory, DefaultUser(last.userId).v))
    /\ EventsOfAllLogs(last.isbn.v, "return") = EventsOfAllLogs(last.isbn.v, "borrow")

-----------------------------------------------------------------------------
(* C30: requests in flight together *)

\* the requests for the key that have been answered
Answered(k) == {r \in 1..Len(requests) : requests[r].isbn = Str(k) /\ requests[r].state = "responded"}

Granted(k) == {r \in Answered(k) : requests[r].status = 200}

\* C30: the route callbacks run one after the other, each to its end: of the
\* requests to borrow one book that came in while the book was available,
\* whatever the order in which they are served, exactly one is answered 200
\* and every other one 400 'Book is not available', and exactly one borrow
\* event for the book is recorded.
C30_OneBorrower ==
    \A k \in Isbns :
        /\ Cardinality(Granted(k)) <= 1
        /\ EventsOfAllLogs(k, "borrow") = Cardinality(Granted(k))
        /\ \A r \in Answered(k) :
              requests[r].available =>
                  /\ Cardinality(Granted(k)) = 1
                  /\ \/ requests[r].status = 200 /\ requests[r].error = "none"
                     \/ requests[r].status = 400 /\ requests[r].error = "Book is not available"

\* two requests for one book came in while it was available; the second
\* was served first and got the book, the first was refused
C30_Witness ==
    /\ Len(requests) = 2
    /\ requests[1].isbn = requests[2].isbn
    /\ requests[1].available /\ requests[2].available
    /\ requests[1].state = "responded" /\ requests[2].state = "responded"
    /\ requests[2].status = 200
    /\ requests[1].status = 400 /\ requests[1].error = "Book is not available"
    /\ EventsOfAllLogs(requests[1].isbn.v, "borrow") = 1

-----------------------------------------------------------------------------
(* C31: the flag alone decides lending *)

\* the key is in the registry with the flag
Flagged(k, flag) == \E i \in 1..Len(books) : books[i].key = k /\ books[i].value.isAvailable = flag

\* a log holds an event that an import has loaded
HoldsImportedEvent ==
    \E e \in 1..Len(borrowHistory) :
        \E j \in 1..Len(borrowHistory[e].value) : ~borrowHistory[e].value[j].timestamp.isDate

\* C31: in every state, also after an import or a compaction run, borrowBook
\* succeeds exactly when its key is in the registry with the flag true and
\* returnBook exactly when its key is in the registry with the flag false,
\* whoever the actor is and whatever the logs hold.
C31_FlagDecides ==
    [][/\ (last'.op = "borrowBook") => (last'.error = "none" <=> Flagged(last'.isbn.v, TRUE))
       /\ (last'.op = "returnBook") => (last'.error = "none" <=> Flagged(last'.isbn.v, FALSE))]_vars

\* after an import, an actor without a log has returned the book that the
\* log of another actor holds as borrowed
C31_Witness ==
    /\ last.op = "returnBook"
    /\ last.error = "none"
    /\ ~MapHas(borrowHistory, DefaultUser(last.userId).v)
    /\ HoldsImportedEvent
    /\ \E e \in 1..Len(borrowHistory) :
          LET log == borrowHistory[e].value
          IN  Len(log) > 0 /\ log[Len(log)].isbn = last.isbn.v /\ log[Len(log)].action = "borrow"

-----------------------------------------------------------------------------
(* C32: addBookWithCategory, all or nothing *)

\* C32 as stated: in every state, also after the import of an exported
\* snapshot that holds the category, an addBookWithCategory that raises an
\* error has changed neither the registry nor the category index.
C32_AllOrNothing ==
    [][(last'.op = "addBookWithCategory" /\ last'.error # "none")
          => UNCHANGED <<books, categories>>]_vars

-----------------------------------------------------------------------------
(* C33: deleteBook after an import *)

\* the category index holds a value that an import has loaded
HoldsImportedCategory == \E i \in 1..Len(categories) : ~categories[i].value.isSet

\* C33 as stated: in a library that imported a snapshot with at least one
\* category, deleteBook of a book that is in the registry and available
\* returns true and removes the key from the registry and from every
\* category set.
C33_DeleteAfterImport ==
    [][(/\ last'.op = "deleteBook"
        /\ HoldsImportedCategory
        /\ Flagged(last'.isbn.v, TRUE))
          => /\ last'.error = "none"
             /\ last'.ret = Bool(TRUE)
             /\ ~MapHas(books', last'.isbn.v)
             /\ \A i \in 1..Len(categories') :
                   ~SeqHas(categories'[i].value.items, last'.isbn.v)]_vars

-----------------------------------------------------------------------------
(* C34: the fields of a stored book *)

\* C34: over addBook, addBookWithCategory, borrowBook, returnBook,
\* searchBooks, getAvailableBooks and optimizePerformance every book of the
\* registry stays in its place with its key, title, author and publication
\* year; its availability flag changes only in a borrowBook or returnBook of
\* its own key that succeeds.
C34_BookFieldsFixed ==
    [][\A i \in 1..Len(books) :
          /\ Len(books') >= i
          /\ books'[i].key = books[i].key
          /\ books'[i].value.isbn = books[i].value.isbn
          /\ books'[i].value.title = books[i].value.title
          /\ books'[i].value.author = books[i].value.author
          /\ books'[i].value.publicationYear = books[i].value.publicationYear
          /\ books'[i].value.isAvailable # books[i].value.isAvailable =>
                /\ last'.op \in {"borrowBook", "returnBook"}
                /\ last'.error = "none"
                /\ last'.isbn.v = books[i].key]_vars

\* a search has found two books, one of them on loan
C34_Witness ==
    /\ last.op = "searchBooks"
    /\ Len(last.ret) = 2
    /\ \E i \in 1..Len(books) : ~books[i].value.isAvailable
    /\ \E i \in 1..Len(books) : books[i].value.isAvailable

-----------------------------------------------------------------------------
(* C35: the operation counter *)

CountedOps ==
    {"addBook", "addBookWithCategory", "borrowBook", "returnBook", "deleteBook",
     "getAvailableBooks", "searchBooks"}

UncountedOps ==
    {"getBooksByCategory", "getBorrowingStats", "exportToJSON", "getPerformanceMetrics"}

\* the counter over one step
C35_CounterSteps ==
    /\ performanceMetrics'.operations >= performanceMetrics.operations
    /\ last'.op \in CountedOps =>
          performanceMetrics'.operations = performanceMetrics.operations + 1
    /\ last'.op \in UncountedOps =>
          performanceMetrics'.operations = performanceMetrics.operations

\* C35 as stated: the counter never decreases; addBook, borrowBook,
\* returnBook, deleteBook, getAvailableBooks and searchBooks add 1 to it
\* whether they succeed or fail, addBookWithCategory adds 1 in total, the
\* reading operations add 0; and a call that fails changes nothing but the
\* counter.
C35_OperationCounter ==
    [][/\ C35_CounterSteps
       /\ last'.error # "none" =>
             /\ UNCHANGED <<books, categories, borrowHistory>>
             /\ performanceMetrics'.startTime = performanceMetrics.startTime
             /\ performanceMetrics'.lastOptimization = performanceMetrics.lastOptimization]_vars

-----------------------------------------------------------------------------
(* C36: deleteBook and the logs *)

\* the key was lent and brought back, then deleted, and is in the registry again
AddedAgain(k) ==
    /\ lending[k].deleted
    /\ lending[k].lastOk = "return"
    /\ \E i \in 1..Len(books) : books[i].key = k

\* the entry of the key in popularBooks, 0 when there is none
PopularityOf(stats, k) ==
    IF \E i \in 1..Len(stats.popularBooks) : stats.popularBooks[i].key = k
    THEN (CHOOSE e \in {stats.popularBooks[i] : i \in 1..Len(stats.popularBooks)} :
              e.key = k).value
    ELSE 0

\* C36: deleteBook leaves every log as it was, so the totalBorrows and the
\* popularBooks that getBorrowingStats reports are the same after a delete
\* as before it; an addBook of a deleted key stores an available book, and
\* for a key that was deleted and added again popularBooks still counts the
\* 'borrow' events of the deleted book.
C36_DeleteKeepsLogs ==
    [][/\ (last'.op = "deleteBook") =>
             /\ borrowHistory' = borrowHistory
             /\ GetBorrowingStatsResult(books', borrowHistory').totalBorrows
                   = GetBorrowingStatsResult(books, borrowHistory).totalBorrows
             /\ GetBorrowingStatsResult(books', borrowHistory').popularBooks
                   = GetBorrowingStatsResult(books, borrowHistory).popularBooks
       /\ (last'.op = "addBook" /\ last'.error = "none" /\ lending[last'.isbn.v].deleted) =>
             \E i \in 1..Len(books') :
                 books'[i].key = last'.isbn.v /\ books'[i].value.isAvailable
       /\ (last'.op = "getBorrowingStats") =>
             \A k \in Isbns :
                 AddedAgain(k) =>
                     /\ PopularityOf(last'.ret, k) >= 1
                     /\ PopularityOf(last'.ret, k) = Cardinality(BorrowsOf(borrowHistory, k))
                     /\ last'.ret.totalBorrows >= PopularityOf(last'.ret, k)]_vars

\* the statistics of a library in which a book was borrowed, returned,
\* deleted and added again: the book is available and counted once
C36_Witness ==
    /\ last.op = "getBorrowingStats"
    /\ \E k \in Isbns :
          /\ AddedAgain(k)
          /\ MapGet(books, k).isAvailable
          /\ PopularityOf(last.ret, k) = 1
          /\ last.ret.totalBorrows = 1
          /\ last.ret.activeLoans = 0

-----------------------------------------------------------------------------
(* C37: compaction of imported events *)

\* the events of a log that are younger than the retention window at t
YoungEvents(log, t) == SelectSeq(log, LAMBDA e : t - e.timestamp.time < RetentionWindow)

RECURSIVE YoungBorrows(_, _, _)
YoungBorrows(hist, t, n) ==
    IF n = 0 THEN 0
    ELSE Len(SelectSeq(YoungEvents(hist[n].value, t), LAMBDA e : e.action = "borrow"))
             + YoungBorrows(hist, t, n - 1)

\* C37 as stated: a compaction run keeps every event that is less than one
\* year old, an event that an import has loaded as one that was recorded
\* directly, and totalBorrows counts the kept 'borrow' events afterwards.
C37_ImportedRetention ==
    [][(last'.op = "optimizePerformance"
            /\ performanceMetrics'.lastOptimization # performanceMetrics.lastOptimization) =>
        /\ Len(borrowHistory') = Len(borrowHistory)
        /\ \A i \in 1..Len(borrowHistory) :
              YoungEvents(borrowHistory'[i].value, now) = YoungEvents(borrowHistory[i].value, now)
        /\ GetBorrowingStatsResult(books', borrowHistory').totalBorrows
              = YoungBorrows(borrowHistory, now, Len(borrowHistory))]_vars

====
